---- MODULE Spec2Model ----
(***************************************************************************)
(* Model of the concurrent batched quote writer of theDataFlowClub/dxm:    *)
(* SaveQuotesConcurrently (worker pool, bounded work queue, error channel, *)
(* barrier) and processAndSaveBatch (one bbolt write transaction per       *)
(* batch, eight field sub-buckets keyed by the big-endian nanosecond       *)
(* timestamp), and of executeActionWithRetries (retry loop with            *)
(* exponential backoff and jitter in int64 nanoseconds), of InitBucket and  *)
(* InitBucketWithRetries (get-or-create of the symbol bucket) and of main   *)
(* (open, deferred Close, bucket initialisation, ingest).                   *)
(***************************************************************************)
EXTENDS Integers, Sequences, FiniteSets, Bags, TLC

\* ------------------------------------------------------------------ bounds
MaxWorkers == 2
MaxBatchSize == 2
MaxQuotes == 3
MaxStream == 4
MaxRetries == 40

\* ------------------------------------------------------------ values
\* The nil error.
Nil == [msg |-> "nil"]

\* Names of the field sub-buckets, in the order the code declares them.
fieldBuckets == <<"AP", "AS", "AX", "BP", "BS", "BX", "C", "Z">>

Fields == {fieldBuckets[i] : i \in DOMAIN fieldBuckets}

\* A timestamp string is modelled by what RFC3339 text carries: whether it is
\* well formed, the wall-clock reading (in nanoseconds) and the zone offset.
TsA == [ok |-> TRUE, wall |-> 5, off |-> 0]
TsAShifted == [ok |-> TRUE, wall |-> 261, off |-> 256]
TsB == [ok |-> TRUE, wall |-> 300, off |-> 0]
TsBad == [ok |-> FALSE, wall |-> 0, off |-> 0]

\* time.Parse(time.RFC3339Nano, s): fails on malformed text.
ParseOK(ts) == ts.ok

\* t.UnixNano(): the instant, nanoseconds since the epoch (wall clock minus offset).
UnixNano(ts) == ts.wall - ts.off

\* One byte of a small non-negative integer, i = 1 the most significant of 8.
ByteOfNat(m, i) == IF i <= 5 THEN 0 ELSE (m \div (256 ^ (8 - i))) % 256

\* binary.BigEndian.PutUint64(key, uint64(unixNano)): the 8 bytes of the two's
\* complement representation, most significant first.
PutUint64(n) ==
  [i \in 1..8 |-> IF n >= 0 THEN ByteOfNat(n, i) ELSE 255 - ByteOfNat(-n - 1, i)]

\* The value byte b contributes at position i of 8, i = 1 the most significant.
Weigh(b, i) == IF b = 0 THEN 0 ELSE b * (256 ^ (8 - i))

\* binary.BigEndian.Uint64(k) for a key below 2^63.
Uint64(k) ==
  Weigh(k[1], 1) + Weigh(k[2], 2) + Weigh(k[3], 3) + Weigh(k[4], 4) +
  Weigh(k[5], 5) + Weigh(k[6], 6) + Weigh(k[7], 7) + Weigh(k[8], 8)

\* Mutation: the conversion to int64 inverts the bits of a value with the
\* top bit set and forgets the one to add.
Int64OfUint64_OnesComplement(k) ==
  IF k[1] >= 128 THEN -Uint64([i \in 1..8 |-> 255 - k[i]]) ELSE Uint64(k)

\* int64(binary.BigEndian.Uint64(k)): a value with the top bit set denotes
\* itself less 2^64, which is minus the value of the inverted bits, less one.
Int64OfUint64(k) ==
  IF k[1] >= 128 THEN -Uint64([i \in 1..8 |-> 255 - k[i]]) - 1 ELSE Uint64(k)

\* bytes.Compare(a, b) < 0 on two 8-byte keys: the order of a bucket's cursor.
LexLess(a, b) == \E i \in 1..8 : a[i] < b[i] /\ \A j \in 1..(i - 1) : a[j] = b[j]

\* ---- int64 values (time.Duration, nanoseconds) as their 8 bytes, two's
\* ---- complement, most significant first: the arithmetic wraps at 2^64.
Zero64 == [i \in 1..8 |-> 0]

\* The carry into byte i of x + y.
RECURSIVE CarryInto(_, _, _)
CarryInto(x, y, i) ==
  IF i = 8 THEN 0 ELSE (x[i + 1] + y[i + 1] + CarryInto(x, y, i + 1)) \div 256

\* x + y on int64
Add64(x, y) == [i \in 1..8 |-> (x[i] + y[i] + CarryInto(x, y, i)) % 256]

\* -x on int64
Neg64(x) == Add64([i \in 1..8 |-> 255 - x[i]], PutUint64(1))

\* x < 0, x > 0 on int64
IsNeg64(x) == x[1] >= 128
IsPos64(x) == ~IsNeg64(x) /\ x # Zero64

\* x < y on int64: the byte order once the sign bit is flipped.
Less64(x, y) ==
  LexLess([x EXCEPT ![1] = (@ + 128) % 256], [y EXCEPT ![1] = (@ + 128) % 256])

\* x / 2 on int64 (Go's division truncates toward zero).
Shr1(x) == [i \in 1..8 |-> (x[i] \div 2) + (IF i > 1 THEN (x[i - 1] % 2) * 128 ELSE 0)]
Half64(x) == IF IsNeg64(x) THEN Neg64(Shr1(Neg64(x))) ELSE Shr1(x)

\* x * time.Duration(1 << s) on int64: the product with 2^s wraps at 2^64,
\* which is s doublings; for s >= 64 the shift 1 << s is 0 and so is the product.
\* Byte i of the result takes the low bits of byte i + s/8 of x and the high
\* bits of the byte after it.
ByteAt(x, i) == IF i \in 1..8 THEN x[i] ELSE 0
MulPow2(x, s) ==
  LET q == s \div 8
      r == s % 8
  IN [i \in 1..8 |->
        ((ByteAt(x, i + q) * (2 ^ r)) % 256) + (ByteAt(x, i + q + 1) \div (2 ^ (8 - r)))]

\* The carry into byte i of x * m, for a small non-negative m.
RECURSIVE MulCarry(_, _, _)
MulCarry(x, m, i) ==
  IF i = 8 THEN 0 ELSE (x[i + 1] * m + MulCarry(x, m, i + 1)) \div 256

\* m * x for an untyped constant m and a time.Duration x
Mul64(m, x) == [i \in 1..8 |-> (x[i] * m + MulCarry(x, m, i)) % 256]

\* Package time's units.
Nanosecond == PutUint64(1)
Millisecond == Mul64(1000, Mul64(1000, Nanosecond))
Second == Mul64(1000, Millisecond)

Digits == <<"0", "1", "2", "3", "4", "5", "6", "7", "8", "9">>

RECURSIVE NatText(_)
NatText(n) == IF n < 10 THEN Digits[n + 1] ELSE NatText(n \div 10) \o Digits[(n % 10) + 1]

\* strconv.Itoa
Itoa(n) == IF n < 0 THEN "-" \o NatText(-n) ELSE NatText(n)

\* strconv.FormatFloat(x, 'f', -1, 64) on a price held in hundredths: the
\* shortest decimal text that reads back as the same value.
FormatFloat(c) ==
  LET a == IF c < 0 THEN -c ELSE c
      whole == NatText(a \div 100)
      frac == a % 100
      tail == IF frac = 0 THEN ""
              ELSE IF frac % 10 = 0 THEN "." \o Digits[(frac \div 10) + 1]
              ELSE "." \o Digits[(frac \div 10) + 1] \o Digits[(frac % 10) + 1]
  IN (IF c < 0 THEN "-" ELSE "") \o whole \o tail

\* json.Marshal of a string: the text in double quotes.
jsonMarshal(s) == "\"" \o s \o "\""

\* oneQuote values the producer may be handed.
QuoteA == [AP |-> 1510, AS |-> 3, AX |-> "V", BP |-> 1505, BS |-> 1, BX |-> "Q",
           C |-> "R", T |-> TsA, Z |-> "C"]
QuoteA2 == [AP |-> 1520, AS |-> 12, AX |-> "P", BP |-> 1500, BS |-> 4, BX |-> "V",
            C |-> "", T |-> TsAShifted, Z |-> "B"]
QuoteB == [AP |-> 1507, AS |-> 100, AX |-> "Q", BP |-> 1490, BS |-> 2, BX |-> "P",
           C |-> "R", T |-> TsB, Z |-> "C"]
QuoteBad == [AP |-> 1, AS |-> 1, AX |-> "V", BP |-> 1, BS |-> 1, BX |-> "V",
             C |-> "R", T |-> TsBad, Z |-> "A"]

oneQuote == {QuoteA, QuoteA2, QuoteB, QuoteBad}

\* The i-th quote of a feed whose timestamps increase.
StreamQuote(i) ==
  [QuoteB EXCEPT !.T = [ok |-> TRUE, wall |-> 300 + i, off |-> 0], !.AS = 100 + i]

\* The bytes stored for field f of quote q.
FieldValue(q, f) ==
  CASE f = "AP" -> FormatFloat(q.AP)
    [] f = "AS" -> Itoa(q.AS)
    [] f = "AX" -> q.AX
    [] f = "BP" -> FormatFloat(q.BP)
    [] f = "BS" -> Itoa(q.BS)
    [] f = "BX" -> q.BX
    [] f = "C" -> jsonMarshal(q.C)
    [] f = "Z" -> q.Z

\* ------------------------------------------------------------ the store
\* The committed content of the database file, for the one symbol the call
\* writes: whether the symbol bucket exists, which sub-buckets exist, and the
\* key/value pairs of each sub-bucket.
EmptyStore == [sym |-> FALSE, sub |-> {}, kv |-> [f \in Fields |-> <<>>]]

\* bucket.Put(key, value) on a key/value map: insert or overwrite.
BucketPut(b, k, v) == [x \in (DOMAIN b) \cup {k} |-> IF x = k THEN v ELSE b[x]]

\* Mutation: the put into the last sub-bucket (Z) is forgotten.
QuoteOps_NoTape(q) ==
  IF ~ParseOK(q.T) THEN <<>>
  ELSE [i \in 1..7 |-> [op |-> "put", field |-> fieldBuckets[i],
                         key |-> PutUint64(UnixNano(q.T)),
                         val |-> FieldValue(q, fieldBuckets[i])]]

\* The store operations the transaction function issues for one quote: none
\* for a quote whose timestamp does not parse (log and continue), else the
\* eight puts in the order AP, AS, AX, BP, BS, BX, C, Z.
QuoteOps(q) ==
  IF ~ParseOK(q.T) THEN <<>>
  ELSE [i \in 1..8 |-> [op |-> "put", field |-> fieldBuckets[i],
                         key |-> PutUint64(UnixNano(q.T)),
                         val |-> FieldValue(q, fieldBuckets[i])]]

\* Mutation: a timestamp that does not parse ends the loop (break for continue).
RECURSIVE BatchPuts_Break(_)
BatchPuts_Break(qs) ==
  IF qs = <<>> \/ ~ParseOK(Head(qs).T) THEN <<>>
  ELSE QuoteOps(Head(qs)) \o BatchPuts_Break(Tail(qs))

\* Mutation: the loop of line 281 runs over the batch from its end.
RECURSIVE BatchPuts_Reversed(_)
BatchPuts_Reversed(qs) ==
  IF qs = <<>> THEN <<>> ELSE BatchPuts_Reversed(Tail(qs)) \o QuoteOps(Head(qs))

\* Lines 281-350: the puts of the quotes of the batch, in batch order.
RECURSIVE BatchPuts(_)
BatchPuts(qs) == IF qs = <<>> THEN <<>> ELSE QuoteOps(Head(qs)) \o BatchPuts(Tail(qs))

\* Mutation: only the symbol bucket is made up front, the sub-buckets are
\* left to be made when a record needs them.
CreateOps_SymbolOnly ==
  <<[op |-> "createSymbol", field |-> "", key |-> <<>>, val |-> ""]>>

\* Mutation: a sub-bucket is made for the timestamp field too.
CreateOps_WithT ==
  <<[op |-> "createSymbol", field |-> "", key |-> <<>>, val |-> ""]>> \o
  [i \in 1..8 |-> [op |-> "createSub", field |-> fieldBuckets[i], key |-> <<>>, val |-> ""]] \o
  <<[op |-> "createSub", field |-> "T", key |-> <<>>, val |-> ""]>>

\* CreateBucketIfNotExists for the symbol, then for each field, once per call.
CreateOps ==
  <<[op |-> "createSymbol", field |-> "", key |-> <<>>, val |-> ""]>> \o
  [i \in 1..8 |-> [op |-> "createSub", field |-> fieldBuckets[i], key |-> <<>>, val |-> ""]]

\* Every store operation of the transaction function, in execution order.
TxOps(qs) == CreateOps \o BatchPuts(qs)

\* Mutation: the symbol bucket is created afresh by every batch.
ApplyOp_Recreate(s, o) ==
  CASE o.op = "createSymbol" -> [sym |-> TRUE, sub |-> {}, kv |-> [f \in Fields |-> <<>>]]
    [] o.op = "createSub" -> [s EXCEPT !.sub = @ \cup {o.field}]
    [] o.op = "put" -> [s EXCEPT !.kv[o.field] = BucketPut(@, o.key, o.val)]

\* Mutation: a put into sub-bucket Z does not overwrite a key already there.
ApplyOp_TapeOnce(s, o) ==
  CASE o.op = "createSymbol" -> [s EXCEPT !.sym = TRUE]
    [] o.op = "createSub" -> [s EXCEPT !.sub = @ \cup {o.field}]
    [] o.op = "put" ->
         IF o.field = "Z" /\ o.key \in DOMAIN s.kv["Z"] THEN s
         ELSE [s EXCEPT !.kv[o.field] = BucketPut(@, o.key, o.val)]

\* The effect of one store operation on the transaction's working copy.
ApplyOp(s, o) ==
  CASE o.op = "createSymbol" -> [s EXCEPT !.sym = TRUE]
    [] o.op = "createSub" -> [s EXCEPT !.sub = @ \cup {o.field}]
    [] o.op = "put" -> [s EXCEPT !.kv[o.field] = BucketPut(@, o.key, o.val)]

RECURSIVE ApplyOps(_, _, _)
ApplyOps(s, ops, n) == IF n = 0 THEN s ELSE ApplyOp(ApplyOps(s, ops, n - 1), ops[n])

\* The error the transaction function returns when store operation o fails.
OpError(o) == [msg |-> "failed", op |-> o.op, field |-> o.field, key |-> o.key]

CommitError == [msg |-> "commit failed"]

\* Mutation: a failed transaction leaves its partial writes in place.
Rollback_KeepsDirty(before, dirty) == dirty

\* Mutation: a failed transaction empties the database.
Rollback_Wipes(before, dirty) == [sym |-> FALSE, sub |-> {}, kv |-> [f \in Fields |-> <<>>]]

\* tx.Rollback(): the committed state stays as it was before the transaction.
Rollback(before, dirty) == before

\* tx.Commit(): the working copy becomes the committed state.
Commit(before, dirty) == dirty

\* The transaction function of processAndSaveBatch run against committed state
\* s: the store operations are issued in order and the fault-th one fails
\* (fault = 0 or beyond the last operation: none fails). Gives the working
\* copy reached and the error the function returns.
TxBody(s, qs, fault) ==
  LET ops == TxOps(qs)
      n == Len(ops)
  IN IF fault \in 1..n
       THEN [dirty |-> ApplyOps(s, ops, fault - 1), err |-> OpError(ops[fault])]
       ELSE [dirty |-> ApplyOps(s, ops, n), err |-> Nil]

\* db.Update: roll back when the function returned an error, else commit (the
\* commit itself may fail, which rolls back too).
UpdateEnd(before, body, commitFails) ==
  IF body.err # Nil THEN [store |-> Rollback(before, body.dirty), err |-> body.err]
  ELSE IF commitFails THEN [store |-> Rollback(before, body.dirty), err |-> CommitError]
  ELSE [store |-> Commit(before, body.dirty), err |-> Nil]

\* The faults a call on batch qs can meet: none (0), the k-th store operation,
\* or the commit (one past the last operation).
FaultPoints(qs) == 0..(Len(TxOps(qs)) + 1)

\* The faults injected into a worker's batch write: none, or the last store
\* operation of the transaction function.
WorkerFaults(qs) == {0, Len(TxOps(qs))}

\* The write transaction of owner once the transaction function has run.
OpenTx(owner, s, qs, fault) ==
  LET body == TxBody(s, qs, fault)
  IN [owner |-> owner, dirty |-> body.dirty, err |-> body.err, fault |-> fault,
      commitFails |-> (fault = Len(TxOps(qs)) + 1)]

\* processAndSaveBatch as a whole: the committed state and the error returned.
processAndSaveBatch(s, qs, fault) ==
  UpdateEnd(s, TxBody(s, qs, fault), fault = Len(TxOps(qs)) + 1)

\* ------------------------------------------------------- the pipeline
VARIABLES
  dbInstance,   \* "open" or "nil": the handle passed by the caller
  quotes,       \* the records passed by the caller
  batchSize,
  numWorkers,
  store,        \* committed content of the database
  tx,           \* the open write transaction, owner = -1 when none
  mainPc,       \* position of SaveQuotesConcurrently's own goroutine
  sent,         \* number of quotes the producer loop has sent
  quotesChan,   \* buffered content of the work queue
  chanClosed,   \* close(quotesChan) has run
  errChan,      \* buffered content of the error channel
  wPc,          \* position of each worker goroutine
  localBatch,   \* each worker's local batch
  result,       \* what SaveQuotesConcurrently returned
  errLog,       \* history: every error sent on errChan, in order
  callErr,      \* history: the error of each worker's failed batch write
  calls,        \* history: number of processAndSaveBatch calls of each worker
  committed,    \* history: the quotes of every batch whose transaction committed
  rerun,        \* the caller is in its second call with the same arguments
  firstStore,   \* history: the store when the first call returned
  received,     \* history: the bag of quotes the workers have received
  passed,       \* history: the bag of quotes passed to processAndSaveBatch
  bPc,          \* position of a caller that invokes processAndSaveBatch itself
  bBatch,       \* the batch that caller passes
  bBefore,      \* history: the store when that call started
  bFault,       \* history: the fault that call met
  bErr,         \* the error that call returned
  rPc,            \* position of a call of executeActionWithRetries
  actionName,
  maxRetries,
  initialBackoff,
  maxBackoff,
  attempt,        \* the loop variable i
  actErr,         \* err of the current attempt
  backoff,        \* the backoff computed for the current attempt
  prevBackoff,    \* history: the backoff computed for the attempt before
  sleepDuration,
  rResult,        \* the result executeActionWithRetries returned
  rError,         \* the error executeActionWithRetries returned
  rTrace,         \* history: action calls, errorHandler calls and sleeps, in order
  kPc,            \* position of a caller that builds the keys of two timestamps
  kT1,
  kT2,
  kKey1,
  kKey2,
  kNano1,         \* the timestamps read back from the two keys
  kNano2,
  iPc,            \* position of a caller that calls InitBucket twice
  iBefore,        \* history: the store before the first InitBucket call
  iAfter,         \* history: the store after each InitBucket call
  iErrs,          \* the error each InitBucket call returned
  iFaults,        \* history: the fault each InitBucket call met
  ibPc,           \* position of a call of InitBucketWithRetries
  ibBucket,       \* the bucket InitBucketWithRetries returned
  ibErr,          \* the error InitBucketWithRetries returned
  oPc,            \* position of main
  closes,         \* history: number of Close calls on the store handle
  defers,         \* main's stack of deferred calls, last registered first
  cfg,            \* the DBOptions passed to InitDBWithRetries
  opens,          \* history: the db.Open calls, with their arguments
  idPc,           \* position of a call of InitDBWithRetries
  idDB,           \* the handle InitDBWithRetries returned
  idErr           \* the error InitDBWithRetries returned

retry == <<rPc, actionName, maxRetries, initialBackoff, maxBackoff, attempt, actErr,
           backoff, prevBackoff, sleepDuration, rResult, rError, rTrace>>
keying == <<kPc, kT1, kT2, kKey1, kKey2, kNano1, kNano2>>
bucketing == <<iPc, iBefore, iAfter, iErrs, iFaults, ibPc, ibBucket, ibErr>>
orchestration == <<oPc, closes, defers>>
opening == <<cfg, opens, idPc, idDB, idErr>>

vars == <<dbInstance, quotes, batchSize, numWorkers, store, tx, mainPc, sent,
          quotesChan, chanClosed, errChan, wPc, localBatch, result, errLog,
          callErr, calls, committed, rerun, firstStore, received, passed, bPc, bBatch,
          bBefore, bFault, bErr, retry, keying, bucketing, orchestration, opening>>

\* No call of executeActionWithRetries is under way.
RetryIdle ==
  /\ rPc = "idle"
  /\ actionName = ""
  /\ maxRetries = 0
  /\ initialBackoff = Zero64
  /\ maxBackoff = Zero64
  /\ attempt = 0
  /\ actErr = Nil
  /\ backoff = Zero64
  /\ prevBackoff = Zero64
  /\ sleepDuration = Zero64
  /\ rResult = Nil
  /\ rError = Nil
  /\ rTrace = <<>>

\* No key is being built outside the pipeline.
KeyingIdle ==
  /\ kPc = "idle"
  /\ kT1 = TsBad
  /\ kT2 = TsBad
  /\ kKey1 = Zero64
  /\ kKey2 = Zero64
  /\ kNano1 = 0
  /\ kNano2 = 0

\* No caller of InitBucket or InitBucketWithRetries is under way.
BucketIdle ==
  /\ iPc = "idle"
  /\ iBefore = EmptyStore
  /\ iAfter = <<>>
  /\ iErrs = <<>>
  /\ iFaults = <<>>
  /\ ibPc = "idle"
  /\ ibBucket = Nil
  /\ ibErr = Nil

\* main is not running.
OrchIdle ==
  /\ oPc = "idle"
  /\ closes = 0
  /\ defers = <<>>

\* No caller of InitDBWithRetries is under way.
OpenIdle ==
  /\ cfg = Nil
  /\ opens = <<>>
  /\ idPc = "idle"
  /\ idDB = Nil
  /\ idErr = Nil

NoTx == [owner |-> -1, dirty |-> EmptyStore, err |-> Nil, fault |-> 0, commitFails |-> FALSE]

Workers == 0..(numWorkers - 1)

\* cap(quotesChan) = numWorkers*2
QueueCap == numWorkers * 2

RECURSIVE SeqsUpTo(_, _)
SeqsUpTo(S, n) ==
  IF n = 0 THEN {<<>>}
  ELSE LET shorter == SeqsUpTo(S, n - 1)
       IN shorter \cup {Append(q, x) : q \in {r \in shorter : Len(r) = n - 1}, x \in S}

\* The record sequences handed to the pipeline: every short sequence of
\* sample quotes, and longer feeds of quotes with increasing timestamps.
Inputs ==
  SeqsUpTo(oneQuote, MaxQuotes) \cup {[i \in 1..n |-> StreamQuote(i)] : n \in 1..MaxStream}

Init ==
  /\ dbInstance \in {"open", "nil"}
  /\ quotes \in Inputs
  /\ batchSize \in 1..MaxBatchSize
  /\ numWorkers \in 0..MaxWorkers
  /\ store = EmptyStore
  /\ tx = NoTx
  /\ mainPc = "start"
  /\ sent = 0
  /\ quotesChan = <<>>
  /\ chanClosed = FALSE
  /\ errChan = <<>>
  /\ wPc = <<>>
  /\ localBatch = <<>>
  /\ result = Nil
  /\ errLog = <<>>
  /\ callErr = <<>>
  /\ calls = <<>>
  /\ committed = {}
  /\ rerun = FALSE
  /\ firstStore = EmptyStore
  /\ received = EmptyBag
  /\ passed = EmptyBag
  /\ bPc = "idle"
  /\ bBatch = <<>>
  /\ bBefore = EmptyStore
  /\ bFault = 0
  /\ bErr = Nil
  /\ RetryIdle
  /\ KeyingIdle
  /\ BucketIdle
  /\ OrchIdle
  /\ OpenIdle

direct == <<bPc, bBatch, bBefore, bFault, bErr>>
input == <<dbInstance, quotes, batchSize, numWorkers, direct, retry, keying, bucketing,
           orchestration, opening>>
history == <<errLog, callErr, calls, committed, rerun, firstStore, received, passed>>

\* Mutation: the early return of lines 195-198 on an empty input is missing.
MainStart_NoEmptyCheck ==
  /\ mainPc = "start"
  /\ IF dbInstance = "nil"
       THEN /\ result' = [msg |-> "instancia de base de datos nula"]
            /\ mainPc' = "done"
            /\ UNCHANGED <<wPc, localBatch, callErr, calls>>
       ELSE /\ mainPc' = "send"
            /\ wPc' = [w \in Workers |-> "recv"]
            /\ localBatch' = [w \in Workers |-> <<>>]
            /\ callErr' = [w \in Workers |-> Nil]
            /\ calls' = [w \in Workers |-> 0]
            /\ UNCHANGED result
  /\ UNCHANGED <<input, store, tx, sent, quotesChan, chanClosed, errChan, errLog,
                 committed, rerun, firstStore, received, passed>>

\* Mutation: the empty input is tested before the handle.
MainStart_EmptyFirst ==
  /\ mainPc = "start"
  /\ IF Len(quotes) = 0
       THEN /\ result' = Nil
            /\ mainPc' = "done"
            /\ UNCHANGED <<wPc, localBatch, callErr, calls>>
       ELSE IF dbInstance = "nil"
         THEN /\ result' = [msg |-> "instancia de base de datos nula"]
              /\ mainPc' = "done"
              /\ UNCHANGED <<wPc, localBatch, callErr, calls>>
         ELSE /\ mainPc' = "send"
              /\ wPc' = [w \in Workers |-> "recv"]
              /\ localBatch' = [w \in Workers |-> <<>>]
              /\ callErr' = [w \in Workers |-> Nil]
              /\ calls' = [w \in Workers |-> 0]
              /\ UNCHANGED result
  /\ UNCHANGED <<input, store, tx, sent, quotesChan, chanClosed, errChan, errLog,
                 committed, rerun, firstStore, received, passed>>

\* Lines 192-240: the two early returns, else the channels are made and the
\* workers launched.
MainStart ==
  /\ mainPc = "start"
  /\ IF dbInstance = "nil"
       THEN /\ result' = [msg |-> "instancia de base de datos nula"]
            /\ mainPc' = "done"
            /\ UNCHANGED <<wPc, localBatch, callErr, calls>>
       ELSE IF Len(quotes) = 0
         THEN /\ result' = Nil
              /\ mainPc' = "done"
              /\ UNCHANGED <<wPc, localBatch, callErr, calls>>
         ELSE /\ mainPc' = "send"
              /\ wPc' = [w \in Workers |-> "recv"]
              /\ localBatch' = [w \in Workers |-> <<>>]
              /\ callErr' = [w \in Workers |-> Nil]
              /\ calls' = [w \in Workers |-> 0]
              /\ UNCHANGED result
  /\ UNCHANGED <<input, store, tx, sent, quotesChan, chanClosed, errChan, errLog,
                 committed, rerun, firstStore, received, passed>>

\* Mutation: the send does not block on a full buffer.
MainSend_NoBlock ==
  /\ mainPc = "send"
  /\ sent < Len(quotes)
  /\ quotesChan' = Append(quotesChan, quotes[sent + 1])
  /\ sent' = sent + 1
  /\ UNCHANGED <<input, store, tx, mainPc, chanClosed, errChan, wPc, localBatch,
                 result, history>>

\* Lines 243-245: quotesChan <- q blocks while the buffer is full.
MainSend ==
  /\ mainPc = "send"
  /\ sent < Len(quotes)
  /\ Len(quotesChan) < QueueCap
  /\ quotesChan' = Append(quotesChan, quotes[sent + 1])
  /\ sent' = sent + 1
  /\ UNCHANGED <<input, store, tx, mainPc, chanClosed, errChan, wPc, localBatch,
                 result, history>>

\* Line 246: close(quotesChan) once every quote has been sent.
MainClose ==
  /\ mainPc = "send"
  /\ sent = Len(quotes)
  /\ chanClosed' = TRUE
  /\ mainPc' = "wait"
  /\ UNCHANGED <<input, store, tx, sent, quotesChan, errChan, wPc, localBatch,
                 result, history>>

\* Mutation: the barrier does not wait.
WaitGroupZero_NoWait == TRUE

\* wg.Wait() returns once every worker has run its deferred wg.Done().
WaitGroupZero == \A w \in Workers : wPc[w] = "done"

\* Lines 249-250: the barrier, then close(errChan).
MainWait ==
  /\ mainPc = "wait"
  /\ WaitGroupZero
  /\ mainPc' = "collect"
  /\ UNCHANGED <<input, store, tx, sent, quotesChan, chanClosed, errChan, wPc,
                 localBatch, result, history>>

\* Mutation: the last buffered error is returned instead of the first.
CollectError_Last(ch) ==
  IF ch = <<>> THEN [msg |-> "nil"]
  ELSE [msg |-> "uno o mas workers fallaron", cause |-> ch[Len(ch)]]

\* The error SaveQuotesConcurrently returns for the errors buffered in ch.
CollectError(ch) ==
  IF ch = <<>> THEN Nil
  ELSE [msg |-> "uno o mas workers fallaron", cause |-> Head(ch)]

\* Lines 253-257: range over the closed errChan, return on the first error.
MainCollect ==
  /\ mainPc = "collect"
  /\ result' = CollectError(errChan)
  /\ errChan' = IF errChan = <<>> THEN errChan ELSE Tail(errChan)
  /\ mainPc' = "done"
  /\ firstStore' = IF rerun THEN firstStore ELSE store
  /\ UNCHANGED <<input, store, tx, sent, quotesChan, chanClosed, wPc, localBatch,
                 errLog, callErr, calls, committed, rerun, received, passed>>

\* Mutation: line 225 compares with > instead of >=.
WorkerRecv_OffByOne(w) ==
  /\ wPc[w] = "recv"
  /\ quotesChan # <<>>
  /\ quotesChan' = Tail(quotesChan)
  /\ localBatch' = [localBatch EXCEPT ![w] = Append(@, Head(quotesChan))]
  /\ wPc' = [wPc EXCEPT ![w] = IF Len(localBatch[w]) + 1 > batchSize THEN "save" ELSE "recv"]
  /\ received' = received (+) SetToBag({Head(quotesChan)})
  /\ UNCHANGED <<input, store, tx, mainPc, sent, chanClosed, errChan, result, errLog,
                 callErr, calls, committed, rerun, firstStore, passed>>

\* Line 223: the range loop receives the next quote and appends it (line
\* 224); line 225 decides whether the batch is written now.
WorkerRecv(w) ==
  /\ wPc[w] = "recv"
  /\ quotesChan # <<>>
  /\ quotesChan' = Tail(quotesChan)
  /\ localBatch' = [localBatch EXCEPT ![w] = Append(@, Head(quotesChan))]
  /\ wPc' = [wPc EXCEPT ![w] = IF Len(localBatch[w]) + 1 >= batchSize THEN "save" ELSE "recv"]
  /\ received' = received (+) SetToBag({Head(quotesChan)})
  /\ UNCHANGED <<input, store, tx, mainPc, sent, chanClosed, errChan, result, errLog,
                 callErr, calls, committed, rerun, firstStore, passed>>

\* Mutation: the final flush of lines 234-238 is missing.
WorkerDrained_NoFlush(w) ==
  /\ wPc[w] = "recv"
  /\ quotesChan = <<>>
  /\ chanClosed
  /\ wPc' = [wPc EXCEPT ![w] = "done"]
  /\ UNCHANGED <<dbInstance, quotes, batchSize, numWorkers, bPc, bBatch, bBefore, bFault,
                 bErr, retry, keying, bucketing, orchestration, opening, store, tx, mainPc, sent, quotesChan, chanClosed, errChan,
                 localBatch, result, errLog, callErr, calls, committed, rerun, firstStore,
                 received, passed>>

\* Mutation: line 234 does not test the local batch, the flush always runs.
WorkerDrained_AlwaysFlush(w) ==
  /\ wPc[w] = "recv"
  /\ quotesChan = <<>>
  /\ chanClosed
  /\ wPc' = [wPc EXCEPT ![w] = "flush"]
  /\ UNCHANGED <<input, store, tx, mainPc, sent, quotesChan, chanClosed, errChan,
                 localBatch, result, history>>

\* Line 223 on a closed and drained queue: the loop ends; line 234 decides
\* whether there is a final batch to write.
WorkerDrained(w) ==
  /\ wPc[w] = "recv"
  /\ quotesChan = <<>>
  /\ chanClosed
  /\ wPc' = [wPc EXCEPT ![w] = IF Len(localBatch[w]) > 0 THEN "flush" ELSE "done"]
  /\ UNCHANGED <<input, store, tx, mainPc, sent, quotesChan, chanClosed, errChan,
                 localBatch, result, history>>

\* The quotes of a batch, with their multiplicities.
RECURSIVE BagOfSeq(_)
BagOfSeq(q) == IF q = <<>> THEN EmptyBag ELSE SetToBag({Head(q)}) (+) BagOfSeq(Tail(q))

\* Lines 226/235 entering db.Update: the write transaction starts once no
\* other write transaction is open (bbolt admits one writer at a time), and
\* the transaction function runs on its working copy.
WorkerBegin(w) ==
  /\ wPc[w] \in {"save", "flush"}
  /\ tx.owner = -1
  /\ \E fault \in WorkerFaults(localBatch[w]) : tx' = OpenTx(w, store, localBatch[w], fault)
  /\ wPc' = [wPc EXCEPT ![w] = IF wPc[w] = "save" THEN "saving" ELSE "flushing"]
  /\ calls' = [calls EXCEPT ![w] = @ + 1]
  /\ passed' = passed (+) BagOfSeq(localBatch[w])
  /\ UNCHANGED <<input, store, mainPc, sent, quotesChan, chanClosed, errChan,
                 localBatch, result, errLog, callErr, committed, rerun, firstStore, received>>

\* The error a worker sends for a failed batch write (lines 227 and 236).
WorkerError(w, final, err) ==
  [msg |-> IF final THEN "failed to save final batch" ELSE "failed to save batch",
   worker |-> w, cause |-> err]

\* Mutation: the return of line 228 is missing, the loop goes on after an error.
AfterSave_KeepsGoing(final, err) == IF final THEN "done" ELSE "recv"

\* Where a worker goes after processAndSaveBatch returned err: line 228
\* returns on an error inside the loop, line 230 restarts the batch on
\* success; after the final flush the goroutine ends either way.
AfterSave(final, err) == IF final \/ err # Nil THEN "done" ELSE "recv"

\* Mutation: the error channel is made one slot short.
ErrCap_OneShort == numWorkers - 1

\* Line 205: cap(errChan) = numWorkers
ErrCap == numWorkers

\* Mutation: line 230 is missing, the local batch is not restarted.
ResetBatch_Keeps(b, final) == b

\* The local batch after a successful write: line 230 restarts it inside the
\* loop; after the final flush it is left as it is.
ResetBatch(b, final) == IF final THEN b ELSE <<>>

\* Lines 226-230 / 235-237 leaving db.Update: commit or rollback, then the
\* worker handles the error; errChan <- err blocks while the buffer is full.
WorkerEnd(w) ==
  /\ wPc[w] \in {"saving", "flushing"}
  /\ tx.owner = w
  /\ LET final == (wPc[w] = "flushing")
         r == UpdateEnd(store, [dirty |-> tx.dirty, err |-> tx.err], tx.commitFails)
     IN /\ r.err # Nil => Len(errChan) < ErrCap
        /\ store' = r.store
        /\ tx' = NoTx
        /\ wPc' = [wPc EXCEPT ![w] = AfterSave(final, r.err)]
        /\ IF r.err # Nil
             THEN /\ errChan' = Append(errChan, WorkerError(w, final, r.err))
                  /\ errLog' = Append(errLog, WorkerError(w, final, r.err))
                  /\ callErr' = [callErr EXCEPT ![w] = r.err]
                  /\ UNCHANGED <<localBatch, committed>>
             ELSE /\ localBatch' = [localBatch EXCEPT ![w] = ResetBatch(@, final)]
                  /\ committed' = committed \cup {localBatch[w][i] : i \in DOMAIN localBatch[w]}
                  /\ UNCHANGED <<errChan, errLog, callErr>>
  /\ UNCHANGED <<input, mainPc, sent, quotesChan, chanClosed, result, calls, rerun,
                 firstStore, received, passed>>

\* The caller ingests the same records again after a call that returned nil.
Reingest ==
  /\ mainPc = "done"
  /\ result = Nil
  /\ dbInstance = "open"
  /\ ~rerun
  /\ rerun' = TRUE
  /\ mainPc' = "start"
  /\ sent' = 0
  /\ quotesChan' = <<>>
  /\ chanClosed' = FALSE
  /\ errChan' = <<>>
  /\ errLog' = <<>>
  /\ wPc' = <<>>
  /\ localBatch' = <<>>
  /\ callErr' = <<>>
  /\ calls' = <<>>
  /\ received' = EmptyBag
  /\ passed' = EmptyBag
  /\ UNCHANGED <<input, store, tx, result, committed, firstStore>>

Next ==
  \/ MainStart
  \/ MainSend
  \/ MainClose
  \/ MainWait
  \/ MainCollect
  \/ \E w \in DOMAIN wPc : WorkerRecv(w)
  \/ \E w \in DOMAIN wPc : WorkerDrained(w)
  \/ \E w \in DOMAIN wPc : WorkerBegin(w)
  \/ \E w \in DOMAIN wPc : WorkerEnd(w)
  \/ Reingest

Spec == Init /\ [][Next]_vars

\* ------------------------------------------- processAndSaveBatch alone
\* A caller that invokes processAndSaveBatch once, on a store that earlier
\* committed batches may have filled, with any single fault injected.
DirectCaller == -2

StoreAfter(qs) == processAndSaveBatch(EmptyStore, qs, 0).store

\* Committed states the call may start from.
PreStores == {EmptyStore} \cup {StoreAfter(<<q>>) : q \in oneQuote}

InitBatch ==
  /\ dbInstance = "open"
  /\ quotes = <<>>
  /\ batchSize = 1
  /\ numWorkers = 0
  /\ store \in PreStores
  /\ tx = NoTx
  /\ mainPc = "idle"
  /\ sent = 0
  /\ quotesChan = <<>>
  /\ chanClosed = FALSE
  /\ errChan = <<>>
  /\ wPc = <<>>
  /\ localBatch = <<>>
  /\ result = Nil
  /\ errLog = <<>>
  /\ callErr = <<>>
  /\ calls = <<>>
  /\ committed = {}
  /\ rerun = FALSE
  /\ firstStore = EmptyStore
  /\ received = EmptyBag
  /\ passed = EmptyBag
  /\ bPc = "call"
  /\ bBatch \in SeqsUpTo(oneQuote, MaxQuotes) \ {<<>>}
  /\ bBefore = store
  /\ bFault = 0
  /\ bErr = Nil
  /\ RetryIdle
  /\ KeyingIdle
  /\ BucketIdle
  /\ OrchIdle
  /\ OpenIdle

\* SaveQuotesConcurrently has not been called and no transaction is open.
PipelineQuiet ==
  /\ quotes = <<>>
  /\ batchSize = 1
  /\ numWorkers = 0
  /\ tx = NoTx
  /\ mainPc = "idle"
  /\ sent = 0
  /\ quotesChan = <<>>
  /\ chanClosed = FALSE
  /\ errChan = <<>>
  /\ wPc = <<>>
  /\ localBatch = <<>>
  /\ result = Nil
  /\ errLog = <<>>
  /\ callErr = <<>>
  /\ calls = <<>>
  /\ committed = {}
  /\ rerun = FALSE
  /\ firstStore = EmptyStore
  /\ received = EmptyBag
  /\ passed = EmptyBag
  /\ bPc = "idle"
  /\ bBatch = <<>>
  /\ bBefore = EmptyStore
  /\ bFault = 0
  /\ bErr = Nil

\* The pipeline is not running, on an open handle of an empty database.
PipelineIdle ==
  /\ dbInstance = "open"
  /\ store = EmptyStore
  /\ PipelineQuiet

pipeline == <<dbInstance, quotes, batchSize, numWorkers, mainPc, sent, quotesChan,
              chanClosed, errChan, wPc, localBatch, result, history, retry, keying,
              bucketing, orchestration, opening>>

\* Mutation: the puts reach the committed store as they are issued, before
\* the transaction ends.
DirectBegin_WritesThrough ==
  /\ bPc = "call"
  /\ tx.owner = -1
  /\ \E fault \in FaultPoints(bBatch) :
       /\ tx' = OpenTx(DirectCaller, store, bBatch, fault)
       /\ bFault' = fault
       /\ store' = TxBody(store, bBatch, fault).dirty
  /\ bPc' = "open"
  /\ UNCHANGED <<pipeline, bBatch, bBefore, bErr>>

\* Line 263: db.Update starts the write transaction and runs the function.
DirectBegin ==
  /\ bPc = "call"
  /\ tx.owner = -1
  /\ \E fault \in FaultPoints(bBatch) :
       /\ tx' = OpenTx(DirectCaller, store, bBatch, fault)
       /\ bFault' = fault
  /\ bPc' = "open"
  /\ UNCHANGED <<pipeline, store, bBatch, bBefore, bErr>>

\* Lines 263-352: db.Update commits or rolls back and returns the error.
DirectEnd ==
  /\ bPc = "open"
  /\ tx.owner = DirectCaller
  /\ LET r == UpdateEnd(store, [dirty |-> tx.dirty, err |-> tx.err], tx.commitFails)
     IN /\ store' = r.store
        /\ bErr' = r.err
  /\ tx' = NoTx
  /\ bPc' = "returned"
  /\ UNCHANGED <<pipeline, bBatch, bBefore, bFault>>

NextBatch ==
  \/ DirectBegin
  \/ DirectEnd

SpecBatch == InitBatch /\ [][NextBatch]_vars

\* ------------------------------------------- executeActionWithRetries
\* What the action returns on its i-th invocation when it succeeds, and the
\* error it returns when it fails.
ActionResult(i) == [value |-> "res", attempt |-> i]
ActionError(i) == [msg |-> "action failed", attempt |-> i]

\* Line 66: the message handed to errorHandler.
FailureMessage(name) == "Fallo en '" \o name \o "'"

\* Line 83: fmt.Errorf("fallo definitivo de '%s' ... %d reintentos: %w", ...)
TerminalError(name, n, e) ==
  [msg |-> "fallo definitivo de '" \o name \o "' despues de " \o Itoa(n) \o " reintentos",
   cause |-> e]

\* Mutation: line 68 compares with <=, the last attempt is followed by a sleep.
MoreAttempts_Inclusive(i, n) == i <= n

\* Line 68: a retry follows the failed attempt i.
MoreAttempts(i, n) == i < n

\* Lines 70-73: initialBackoff * 2^(i-1) in int64, capped at maxBackoff.
Backoff(initial, max, i) ==
  LET b == MulPow2(initial, i - 1)
  IN IF Less64(max, b) THEN max ELSE b

\* Mutation: the jitter may reach its bound.
JitterChoices_Inclusive(n) == {Zero64, n}

\* Line 74: rand.Int63n(n) for n > 0 returns a value of [0, n): its least
\* value, its greatest, and the one in the middle.
JitterChoices(n) == {Zero64, Half64(n), Add64(n, Neg64(Nanosecond))}

\* One event of the history of a call.
Event(ev, i, ok, e) == [ev |-> ev, attempt |-> i, ok |-> ok, err |-> e]

\* The names and the backoff settings the callers pass: those of
\* InitBucketWithRetries (lines 154-157), those of main's download options
\* (lines 390-392), and caller-configured settings of one nanosecond and of
\* zero.
ActionNames == {"apertura bbolt db", "Descarga de Alpaca"}
RetryParams ==
  {<<Mul64(500, Millisecond), Mul64(5, Second)>>,
   <<Mul64(50, Millisecond), Mul64(2, Second)>>,
   <<Nanosecond, Second>>,
   <<Zero64, Zero64>>}

InitRetry ==
  /\ PipelineIdle
  /\ KeyingIdle
  /\ BucketIdle
  /\ OrchIdle
  /\ OpenIdle
  /\ rPc = "loop"
  /\ actionName \in ActionNames
  /\ maxRetries \in -1..MaxRetries
  /\ \E p \in RetryParams : initialBackoff = p[1] /\ maxBackoff = p[2]
  /\ attempt = 1
  /\ actErr = Nil
  /\ backoff = Zero64
  /\ prevBackoff = Zero64
  /\ sleepDuration = Zero64
  /\ rResult = Nil
  /\ rError = Nil
  /\ rTrace = <<>>

others == <<dbInstance, quotes, batchSize, numWorkers, store, tx, mainPc, sent, quotesChan,
            chanClosed, errChan, wPc, localBatch, result, history, direct, keying,
            bucketing, orchestration, opening>>
settings == <<actionName, maxRetries, initialBackoff, maxBackoff>>

\* Line 57: the loop condition; line 88 when the loop ends.
RetryLoop ==
  /\ rPc = "loop"
  /\ IF attempt <= maxRetries
       THEN /\ rPc' = "call"
            /\ UNCHANGED <<rResult, rError>>
       ELSE /\ rPc' = "returned"
            /\ rResult' = Nil
            /\ rError' = Nil
  /\ UNCHANGED <<others, settings, attempt, actErr, backoff, prevBackoff, sleepDuration,
                 rTrace>>

\* Mutation: the return of line 63 is missing, the loop goes on after a success.
RetryCall_NoReturn ==
  /\ rPc = "call"
  /\ \E ok \in BOOLEAN :
       /\ rTrace' = Append(rTrace, Event("action", attempt, ok, Nil))
       /\ IF ok
            THEN /\ rResult' = ActionResult(attempt)
                 /\ rError' = Nil
                 /\ actErr' = Nil
                 /\ attempt' = attempt + 1
                 /\ rPc' = "loop"
            ELSE /\ actErr' = ActionError(attempt)
                 /\ rPc' = "handle"
                 /\ UNCHANGED <<rResult, rError, attempt>>
  /\ UNCHANGED <<others, settings, backoff, prevBackoff, sleepDuration>>

\* Lines 60-64: action(i) is invoked; its success is returned at once.
RetryCall ==
  /\ rPc = "call"
  /\ \E ok \in BOOLEAN :
       /\ rTrace' = Append(rTrace, Event("action", attempt, ok, Nil))
       /\ IF ok
            THEN /\ rResult' = ActionResult(attempt)
                 /\ rError' = Nil
                 /\ actErr' = Nil
                 /\ rPc' = "returned"
            ELSE /\ actErr' = ActionError(attempt)
                 /\ rPc' = "handle"
                 /\ UNCHANGED <<rResult, rError>>
  /\ UNCHANGED <<others, settings, attempt, backoff, prevBackoff, sleepDuration>>

\* Mutation: errorHandler is called only when a retry follows.
RetryHandle_NotOnLast ==
  /\ rPc = "handle"
  /\ IF MoreAttempts(attempt, maxRetries)
       THEN /\ rTrace' = Append(rTrace, Event("errorHandler", attempt, FALSE, actErr))
            /\ rPc' = "backoff"
            /\ UNCHANGED <<rResult, rError>>
       ELSE /\ rResult' = Nil
            /\ rError' = TerminalError(actionName, maxRetries, actErr)
            /\ rPc' = "returned"
            /\ UNCHANGED rTrace
  /\ UNCHANGED <<others, settings, attempt, actErr, backoff, prevBackoff, sleepDuration>>

\* Lines 66-68 and 83: errorHandler is called with the attempt's error; then
\* either a retry follows or the terminal error is returned.
RetryHandle ==
  /\ rPc = "handle"
  /\ rTrace' = Append(rTrace, Event("errorHandler", attempt, FALSE, actErr))
  /\ IF MoreAttempts(attempt, maxRetries)
       THEN /\ rPc' = "backoff"
            /\ UNCHANGED <<rResult, rError>>
       ELSE /\ rResult' = Nil
            /\ rError' = TerminalError(actionName, maxRetries, actErr)
            /\ rPc' = "returned"
  /\ UNCHANGED <<others, settings, attempt, actErr, backoff, prevBackoff, sleepDuration>>

\* Lines 70-73: the backoff of this attempt.
RetryBackoff ==
  /\ rPc = "backoff"
  /\ backoff' = Backoff(initialBackoff, maxBackoff, attempt)
  /\ prevBackoff' = backoff
  /\ rPc' = "jitter"
  /\ UNCHANGED <<others, settings, attempt, actErr, sleepDuration, rResult, rError, rTrace>>

\* Lines 74-75: rand.Int63n panics unless its argument is positive; else the
\* sleep duration is the backoff plus the jitter drawn.
RetryJitter ==
  /\ rPc = "jitter"
  /\ LET n == Half64(backoff)
     IN IF IsPos64(n)
          THEN /\ \E jitter \in JitterChoices(n) : sleepDuration' = Add64(backoff, jitter)
               /\ rPc' = "sleep"
          ELSE /\ rPc' = "panicked"
               /\ UNCHANGED sleepDuration
  /\ UNCHANGED <<others, settings, attempt, actErr, backoff, prevBackoff, rResult, rError,
                 rTrace>>

\* Line 79, then i++ of line 57.
RetrySleep ==
  /\ rPc = "sleep"
  /\ rTrace' = Append(rTrace, Event("sleep", attempt, FALSE, Nil))
  /\ attempt' = attempt + 1
  /\ rPc' = "loop"
  /\ UNCHANGED <<others, settings, actErr, backoff, prevBackoff, sleepDuration, rResult,
                 rError>>

NextRetry ==
  \/ RetryLoop
  \/ RetryCall
  \/ RetryHandle
  \/ RetryBackoff
  \/ RetryJitter
  \/ RetrySleep

SpecRetry == InitRetry /\ [][NextRetry]_vars

\* ------------------------------------------------- the timestamp keys
\* Instants around the epoch and around the byte boundaries of the key, in
\* nanoseconds, and the timestamp strings that denote them in two zones.
SampleNanos == {-65536, -257, -256, -1, 0, 1, 255, 256, 65535, 65536}
KeyStamps ==
  {[ok |-> TRUE, wall |-> n + o, off |-> o] : n \in SampleNanos, o \in {0, 256}} \cup {TsBad}

InitKey ==
  /\ PipelineIdle
  /\ RetryIdle
  /\ BucketIdle
  /\ OrchIdle
  /\ OpenIdle
  /\ kPc = "start"
  /\ kT1 \in KeyStamps
  /\ kT2 \in KeyStamps
  /\ kKey1 = Zero64
  /\ kKey2 = Zero64
  /\ kNano1 = 0
  /\ kNano2 = 0

\* Lines 286-300 of processAndSaveBatch for two quotes: a timestamp that does
\* not parse gets no key, else the key is made of the 8 bytes of UnixNano.
KeyEncode ==
  /\ kPc = "start"
  /\ kKey1' = IF ParseOK(kT1) THEN PutUint64(UnixNano(kT1)) ELSE kKey1
  /\ kKey2' = IF ParseOK(kT2) THEN PutUint64(UnixNano(kT2)) ELSE kKey2
  /\ kPc' = "done"
  /\ UNCHANGED <<dbInstance, quotes, batchSize, numWorkers, store, tx, mainPc, sent,
                 quotesChan, chanClosed, errChan, wPc, localBatch, result, history, direct,
                 retry, bucketing, orchestration, opening, kT1, kT2, kNano1, kNano2>>

\* Line 498 of main's read-back scan, for the two keys: the key is decoded as
\* a big-endian uint64 and converted to int64.
KeyDecode ==
  /\ kPc = "done"
  /\ kNano1' = IF ParseOK(kT1) THEN Int64OfUint64(kKey1) ELSE kNano1
  /\ kNano2' = IF ParseOK(kT2) THEN Int64OfUint64(kKey2) ELSE kNano2
  /\ kPc' = "read"
  /\ UNCHANGED <<dbInstance, quotes, batchSize, numWorkers, store, tx, mainPc, sent,
                 quotesChan, chanClosed, errChan, wPc, localBatch, result, history, direct,
                 retry, bucketing, orchestration, opening, kT1, kT2, kKey1, kKey2>>

NextKey == KeyEncode \/ KeyDecode

SpecKey == InitKey /\ [][NextKey]_vars

\* ------------------------------------------------------------ InitBucket
\* db.Update on a handle that has been closed returns this error and starts
\* no transaction.
ErrDatabaseNotOpen == [msg |-> "database not open"]

\* The faults a call of InitBucket can meet: none (0), CreateBucketIfNotExists
\* fails (1), the commit fails (2).
BucketFaults == 0..2

\* Mutation: the bucket is made with CreateBucket, which refuses a bucket
\* that exists.
InitBucket_CreateOnly(h, s, fault) ==
  IF h = "closed" THEN [store |-> s, bucket |-> Nil, err |-> ErrDatabaseNotOpen]
  ELSE LET body == IF fault = 1 \/ s.sym
                     THEN [dirty |-> s, err |-> OpError(CreateOps[1])]
                     ELSE [dirty |-> ApplyOp(s, CreateOps[1]), err |-> Nil]
           r == UpdateEnd(s, body, fault = 2)
       IN [store |-> r.store,
           bucket |-> IF r.err = Nil THEN [bucket |-> "symbol"] ELSE Nil,
           err |-> r.err]

\* InitBucket(opt) on handle h and committed state s: one db.Update whose
\* function gets or creates the bucket named opt.BUCKET_NAME (lines 95-101);
\* a nil bucket with the error of db.Update (line 110), else the bucket
\* (line 115).
InitBucket(h, s, fault) ==
  IF h = "closed" THEN [store |-> s, bucket |-> Nil, err |-> ErrDatabaseNotOpen]
  ELSE LET body == IF fault = 1
                     THEN [dirty |-> s, err |-> OpError(CreateOps[1])]
                     ELSE [dirty |-> ApplyOp(s, CreateOps[1]), err |-> Nil]
           r == UpdateEnd(s, body, fault = 2)
       IN [store |-> r.store,
           bucket |-> IF r.err = Nil THEN [bucket |-> "symbol"] ELSE Nil,
           err |-> r.err]

\* The faults a call on handle h can meet: a closed handle starts no
\* transaction.
FaultsOn(h) == IF h = "closed" THEN {0} ELSE BucketFaults

\* Committed states a caller of InitBucket may find: an empty database and
\* those left by one batch of the records the pipeline is handed.
BucketPreStores == {StoreAfter(qs) : qs \in Inputs} \cup {EmptyStore}

\* A caller that calls InitBucket twice with the same options.
InitBucketTwice ==
  /\ dbInstance \in {"open", "closed"}
  /\ store \in BucketPreStores
  /\ PipelineQuiet
  /\ mainPc = "idle"
  /\ sent = 0
  /\ quotesChan = <<>>
  /\ chanClosed = FALSE
  /\ errChan = <<>>
  /\ wPc = <<>>
  /\ localBatch = <<>>
  /\ result = Nil
  /\ errLog = <<>>
  /\ callErr = <<>>
  /\ calls = <<>>
  /\ committed = {}
  /\ rerun = FALSE
  /\ firstStore = EmptyStore
  /\ received = EmptyBag
  /\ passed = EmptyBag
  /\ bPc = "idle"
  /\ bBatch = <<>>
  /\ bBefore = EmptyStore
  /\ bFault = 0
  /\ bErr = Nil
  /\ RetryIdle
  /\ KeyingIdle
  /\ OrchIdle
  /\ OpenIdle
  /\ iPc = "first"
  /\ iBefore = store
  /\ iAfter = <<>>
  /\ iErrs = <<>>
  /\ iFaults = <<>>
  /\ ibPc = "idle"
  /\ ibBucket = Nil
  /\ ibErr = Nil

running == <<quotes, batchSize, numWorkers, tx, mainPc, sent, quotesChan, chanClosed, errChan,
             wPc, localBatch, result, history, direct>>

\* Lines 90-116: one call of InitBucket, the first or the second.
InitBucketCall ==
  /\ iPc \in {"first", "second"}
  /\ \E fault \in FaultsOn(dbInstance) :
       LET r == InitBucket(dbInstance, store, fault)
       IN /\ store' = r.store
          /\ iAfter' = Append(iAfter, r.store)
          /\ iErrs' = Append(iErrs, r.err)
          /\ iFaults' = Append(iFaults, fault)
  /\ iPc' = IF iPc = "first" THEN "second" ELSE "done"
  /\ UNCHANGED <<dbInstance, running, retry, keying, orchestration, opening, iBefore, ibPc, ibBucket,
                 ibErr>>

NextBucket == InitBucketCall

SpecBucket == InitBucketTwice /\ [][NextBucket]_vars

\* ------------------------------------------------ InitBucketWithRetries
\* Line 154: the number of attempts InitBucketWithRetries allows.
BucketMaxRetries == 5

\* A call of InitBucketWithRetries on an open or a closed handle.
InitBucketRetry ==
  /\ dbInstance \in {"open", "closed"}
  /\ store \in BucketPreStores
  /\ PipelineQuiet
  /\ mainPc = "idle"
  /\ sent = 0
  /\ quotesChan = <<>>
  /\ chanClosed = FALSE
  /\ errChan = <<>>
  /\ wPc = <<>>
  /\ localBatch = <<>>
  /\ result = Nil
  /\ errLog = <<>>
  /\ callErr = <<>>
  /\ calls = <<>>
  /\ committed = {}
  /\ rerun = FALSE
  /\ firstStore = EmptyStore
  /\ received = EmptyBag
  /\ passed = EmptyBag
  /\ bPc = "idle"
  /\ bBatch = <<>>
  /\ bBefore = EmptyStore
  /\ bFault = 0
  /\ bErr = Nil
  /\ KeyingIdle
  /\ OrchIdle
  /\ OpenIdle
  /\ rPc = "loop"
  /\ actionName = "apertura bbolt db"
  /\ maxRetries = BucketMaxRetries
  /\ initialBackoff = Mul64(500, Millisecond)
  /\ maxBackoff = Mul64(5, Second)
  /\ attempt = 1
  /\ actErr = Nil
  /\ backoff = Zero64
  /\ prevBackoff = Zero64
  /\ sleepDuration = Zero64
  /\ rResult = Nil
  /\ rError = Nil
  /\ rTrace = <<>>
  /\ iPc = "idle"
  /\ iBefore = store
  /\ iAfter = <<>>
  /\ iErrs = <<>>
  /\ iFaults = <<>>
  /\ ibPc = "retrying"
  /\ ibBucket = Nil
  /\ ibErr = Nil

\* Lines 143-148 called from line 60 of executeActionWithRetries: the action
\* is one call of InitBucket; its success is returned at once (lines 61-64).
BucketAction ==
  /\ rPc = "call"
  /\ ibPc = "retrying"
  /\ \E fault \in FaultsOn(dbInstance) :
       LET r == InitBucket(dbInstance, store, fault)
       IN /\ store' = r.store
          /\ rTrace' = Append(rTrace, Event("action", attempt, r.err = Nil, Nil))
          /\ IF r.err = Nil
               THEN /\ rResult' = r.bucket
                    /\ rError' = Nil
                    /\ actErr' = Nil
                    /\ rPc' = "returned"
               ELSE /\ actErr' = r.err
                    /\ rPc' = "handle"
                    /\ UNCHANGED <<rResult, rError>>
  /\ UNCHANGED <<dbInstance, running, keying, bucketing, orchestration, opening, settings, attempt,
                 backoff, prevBackoff, sleepDuration>>

\* Mutation: the error of the retries is not handed on.
WrapBucketError_Drops(e) == [msg |-> "nil"]

\* Line 162: the error InitBucketWithRetries returns for the error e of the
\* retries.
WrapBucketError(e) ==
  [msg |-> "fallo definitivo al abrir la base de datos BBolt", cause |-> e]

\* Line 175: the result of the retries is no bucket.
UnexpectedResult ==
  [msg |-> "resultado inesperado: se esperaba *db.Bucket pero se obtuvo otro tipo"]

\* Lines 161-180: what InitBucketWithRetries returns once the retries are over.
BucketReturn ==
  /\ ibPc = "retrying"
  /\ rPc = "returned"
  /\ ibPc' = "returned"
  /\ IF rError # Nil
       THEN ibBucket' = Nil /\ ibErr' = WrapBucketError(rError)
       ELSE IF rResult = Nil
         THEN ibBucket' = Nil /\ ibErr' = UnexpectedResult
         ELSE ibBucket' = rResult /\ ibErr' = Nil
  /\ UNCHANGED <<dbInstance, store, running, retry, keying, orchestration, opening, iPc, iBefore,
                 iAfter, iErrs, iFaults>>

NextBucketRetry ==
  \/ RetryLoop
  \/ BucketAction
  \/ RetryHandle
  \/ RetryBackoff
  \/ RetryJitter
  \/ RetrySleep
  \/ BucketReturn

SpecBucketRetry == InitBucketRetry /\ [][NextBucketRetry]_vars

\* ---------------------------------------------------------------- InitDB
\* Lines 58-65 of alpacaDB.go: the package's read/write configuration.
WriteConfig ==
  [Path |-> "db/ticks.db", FileMode |-> "0600",
   BoltOpts |-> [Timeout |-> Mul64(500, Millisecond), ReadOnly |-> FALSE]]

\* Lines 68-76: the package's read-only configuration.
ReadConfig ==
  [Path |-> "db/ticks.db", FileMode |-> "0400",
   BoltOpts |-> [Timeout |-> Mul64(500, Millisecond), ReadOnly |-> TRUE]]

\* The DBOptions values a caller may pass (lines 26-45): the path of the
\* package's configurations and the two others the comment of line 28 and the
\* tests of a caller would name, the accepted file modes and two others, and
\* three option records.
Paths == {"db/ticks.db", "/var/lib/mybot/data.db", "db/other.db"}
FileModes == {"0600", "0400", "0644", "0000"}
BoltOptions ==
  {WriteConfig.BoltOpts, ReadConfig.BoltOpts, [Timeout |-> Second, ReadOnly |-> FALSE]}
DBOptions == [Path : Paths, FileMode : FileModes, BoltOpts : BoltOptions]

\* The error of a db.Open that could not lock the file within Timeout.
ErrTimeout == [msg |-> "timeout"]

\* Line 103.
SecurityError(mode) == [msg |-> "error de seguridad: Modo no valido", mode |-> mode]

\* Line 116.
OpenError(e) == [msg |-> "error al abrir la base de datos bbolt", cause |-> e]

\* Line 108: the arguments of db.Open for the configuration c.
OpenCall(c) == [path |-> c.Path, mode |-> c.FileMode, opts |-> c.BoltOpts]

\* Mutation: the default branch of the switch falls back to the read/write
\* configuration instead of returning the error.
InitDB_DefaultWrite(c, fails) ==
  LET chosen == IF c.FileMode = "0400" THEN ReadConfig ELSE WriteConfig
  IN IF fails
       THEN [db |-> Nil, err |-> OpenError(ErrTimeout), opened |-> <<OpenCall(chosen)>>]
       ELSE [db |-> [path |-> chosen.Path, readOnly |-> chosen.BoltOpts.ReadOnly],
             err |-> Nil, opened |-> <<OpenCall(chosen)>>]

\* Lines 92-120: the switch on cfg.FileMode assigns the package's read/write
\* or read-only configuration to cfg, or returns the error of line 103; then
\* db.Open is called with the fields of cfg, and fails or gives the handle.
\* Gives the handle, the error and the db.Open calls made.
InitDB(c, fails) ==
  IF c.FileMode \notin {"0600", "0400"}
    THEN [db |-> Nil, err |-> SecurityError(c.FileMode), opened |-> <<>>]
    ELSE LET chosen == IF c.FileMode = "0600" THEN WriteConfig ELSE ReadConfig
         IN IF fails
              THEN [db |-> Nil, err |-> OpenError(ErrTimeout),
                    opened |-> <<OpenCall(chosen)>>]
              ELSE [db |-> [path |-> chosen.Path, readOnly |-> chosen.BoltOpts.ReadOnly],
                    err |-> Nil, opened |-> <<OpenCall(chosen)>>]

\* ---------------------------------------------------- InitDBWithRetries
\* Line 153: the number of attempts InitDBWithRetries allows.
DBMaxRetries == 5

\* A call of InitDBWithRetries with one of the DBOptions values.
InitDBRetry ==
  /\ dbInstance = "nil"
  /\ store = EmptyStore
  /\ PipelineQuiet
  /\ errLog = <<>>
  /\ callErr = <<>>
  /\ calls = <<>>
  /\ committed = {}
  /\ rerun = FALSE
  /\ firstStore = EmptyStore
  /\ received = EmptyBag
  /\ passed = EmptyBag
  /\ bPc = "idle"
  /\ bBatch = <<>>
  /\ bBefore = EmptyStore
  /\ bFault = 0
  /\ bErr = Nil
  /\ KeyingIdle
  /\ BucketIdle
  /\ OrchIdle
  /\ rPc = "loop"
  /\ actionName = "apertura bbolt db"
  /\ maxRetries = DBMaxRetries
  /\ initialBackoff = Mul64(500, Millisecond)
  /\ maxBackoff = Mul64(5, Second)
  /\ attempt = 1
  /\ actErr = Nil
  /\ backoff = Zero64
  /\ prevBackoff = Zero64
  /\ sleepDuration = Zero64
  /\ rResult = Nil
  /\ rError = Nil
  /\ rTrace = <<>>
  /\ cfg \in DBOptions
  /\ opens = <<>>
  /\ idPc = "retrying"
  /\ idDB = Nil
  /\ idErr = Nil

\* Lines 146-149 called from line 60 of executeActionWithRetries: the action
\* is one call of InitDB(cfg); its success is returned at once (lines 61-64).
DBAction ==
  /\ rPc = "call"
  /\ idPc = "retrying"
  /\ \E fails \in BOOLEAN :
       LET r == InitDB(cfg, fails)
       IN /\ opens' = opens \o r.opened
          /\ rTrace' = Append(rTrace, Event("action", attempt, r.err = Nil, Nil))
          /\ IF r.err = Nil
               THEN /\ rResult' = r.db
                    /\ rError' = Nil
                    /\ actErr' = Nil
                    /\ rPc' = "returned"
               ELSE /\ actErr' = r.err
                    /\ rPc' = "handle"
                    /\ UNCHANGED <<rResult, rError>>
  /\ UNCHANGED <<dbInstance, store, running, keying, bucketing, orchestration, settings,
                 attempt, backoff, prevBackoff, sleepDuration, cfg, idPc, idDB, idErr>>

\* Line 160: the error InitDBWithRetries returns for the error e of the
\* retries.
WrapDBError(e) ==
  [msg |-> "fallo definitivo al abrir la base de datos BBolt", cause |-> e]

\* Line 169: the result of the retries is no database handle.
UnexpectedDB ==
  [msg |-> "resultado inesperado: se esperaba *db.DB pero se obtuvo otro tipo"]

\* Lines 159-172: what InitDBWithRetries returns once the retries are over.
DBReturn ==
  /\ idPc = "retrying"
  /\ rPc = "returned"
  /\ idPc' = "returned"
  /\ IF rError # Nil
       THEN idDB' = Nil /\ idErr' = WrapDBError(rError)
       ELSE IF rResult = Nil
         THEN idDB' = Nil /\ idErr' = UnexpectedDB
         ELSE idDB' = rResult /\ idErr' = Nil
  /\ UNCHANGED <<dbInstance, store, running, retry, keying, bucketing, orchestration, cfg,
                 opens>>

NextDBRetry ==
  \/ RetryLoop
  \/ DBAction
  \/ RetryHandle
  \/ RetryBackoff
  \/ RetryJitter
  \/ RetrySleep
  \/ DBReturn

SpecDBRetry == InitDBRetry /\ [][NextDBRetry]_vars

\* ------------------------------------------------------------------ main
\* Line 370: the query asks for limit=2, so a download carries at most two
\* quotes; line 459: numWorkers := 4.
MaxDownload == 2
MainWorkers == 4

\* What thisQuote.Quotes may hold after lines 386-397 (nothing when the
\* download or the decoding failed).
Downloads == SeqsUpTo(oneQuote, MaxDownload)

\* main starts with no handle, on a database file that earlier runs may have
\* filled.
InitMain ==
  /\ dbInstance = "nil"
  /\ store \in PreStores
  /\ PipelineQuiet
  /\ mainPc = "idle"
  /\ sent = 0
  /\ quotesChan = <<>>
  /\ chanClosed = FALSE
  /\ errChan = <<>>
  /\ wPc = <<>>
  /\ localBatch = <<>>
  /\ result = Nil
  /\ errLog = <<>>
  /\ callErr = <<>>
  /\ calls = <<>>
  /\ committed = {}
  /\ rerun = FALSE
  /\ firstStore = EmptyStore
  /\ received = EmptyBag
  /\ passed = EmptyBag
  /\ bPc = "idle"
  /\ bBatch = <<>>
  /\ bBefore = EmptyStore
  /\ bFault = 0
  /\ bErr = Nil
  /\ RetryIdle
  /\ KeyingIdle
  /\ BucketIdle
  /\ OpenIdle
  /\ oPc = "open"
  /\ closes = 0
  /\ defers = <<>>

working == <<sent, quotesChan, chanClosed, errChan, wPc, localBatch, result, history, direct,
             retry, keying, bucketing, opening, tx>>

\* Lines 406-424: initDBWithRetries either fails, and log.Fatalf ends the
\* process (line 408), or gives the handle, which is stored in thisDB, and
\* the closure that closes thisDB is deferred.
MainOpen ==
  /\ oPc = "open"
  /\ \E opened \in BOOLEAN :
       IF opened
         THEN /\ dbInstance' = "open"
              /\ defers' = <<"closeIfSet">>
              /\ oPc' = "bucket"
         ELSE /\ oPc' = "exited"
              /\ UNCHANGED <<dbInstance, defers>>
  /\ UNCHANGED <<store, quotes, batchSize, numWorkers, mainPc, working, closes>>

\* Lines 431-450: InitBucketWithRetries either gets or creates the symbol
\* bucket, or fails on every attempt, and log.Fatalf ends the process at
\* once (line 448): os.Exit runs no deferred call.
MainBucket ==
  /\ oPc = "bucket"
  /\ \E fault \in BucketFaults :
       LET r == InitBucket(dbInstance, store, fault)
       IN /\ store' = r.store
          /\ oPc' = IF r.err = Nil THEN "ingest" ELSE "exited"
  /\ UNCHANGED <<dbInstance, quotes, batchSize, numWorkers, mainPc, working, closes, defers>>

\* Lines 455-462: SaveQuotesConcurrently is called with the downloaded
\* quotes, batchSize = len(quotesToSave) and numWorkers = 4.
MainIngest ==
  /\ oPc = "ingest"
  /\ \E qs \in Downloads :
       /\ quotes' = qs
       /\ batchSize' = Len(qs)
  /\ numWorkers' = MainWorkers
  /\ mainPc' = "start"
  /\ oPc' = "saving"
  /\ UNCHANGED <<dbInstance, store, working, closes, defers>>

\* Mutation: SaveQuotesConcurrently is started with go, main does not wait
\* for it.
IngestReturned_Async == mainPc # "idle"

\* The call of line 462 has returned.
IngestReturned == mainPc = "done"

\* Lines 463-552: the error of the ingest is logged, the store is read
\* (View), and thisDB.Close is deferred once more; then main returns.
MainReturn ==
  /\ oPc = "saving"
  /\ IngestReturned
  /\ defers' = <<"close">> \o defers
  /\ oPc' = "unwinding"
  /\ UNCHANGED <<dbInstance, store, quotes, batchSize, numWorkers, mainPc, working, closes>>

\* Line 553: main returns and its deferred calls run, the last registered
\* first: thisDB.Close() of line 552, then the closure of lines 415-424,
\* which calls thisDB.Close() since thisDB is not nil.
MainDeferred ==
  /\ oPc = "unwinding"
  /\ defers # <<>>
  /\ closes' = closes + 1
  /\ dbInstance' = "closed"
  /\ defers' = Tail(defers)
  /\ oPc' = IF Tail(defers) = <<>> THEN "exited" ELSE "unwinding"
  /\ UNCHANGED <<store, quotes, batchSize, numWorkers, mainPc, working>>

NextMain ==
  \/ MainOpen
  \/ MainBucket
  \/ MainIngest
  \/ MainStart
  \/ MainSend
  \/ MainClose
  \/ MainWait
  \/ MainCollect
  \/ \E w \in DOMAIN wPc : WorkerRecv(w)
  \/ \E w \in DOMAIN wPc : WorkerDrained(w)
  \/ \E w \in DOMAIN wPc : WorkerBegin(w)
  \/ \E w \in DOMAIN wPc : WorkerEnd(w)
  \/ MainReturn
  \/ MainDeferred

SpecMain == InitMain /\ [][NextMain]_vars

\* ------------------------------------------------------------ claims
\* The key a quote is stored under.
KeyOf(q) == PutUint64(UnixNano(q.T))

\* The keys of the quotes of qs whose timestamp parses.
ValidKeys(qs) == {KeyOf(qs[i]) : i \in {j \in DOMAIN qs : ParseOK(qs[j].T)}}

\* Worker transactions in which a store operation failed.
PutFailed(e) == e.cause.msg = "failed" /\ e.cause.op = "put"

\* C1: when a put or a bucket get-or-create fails inside processAndSaveBatch,
\* whatever the batch and whichever operation fails, the committed store after
\* the call equals the store before it and the call returns a non-nil error.
C1_BatchAtomicity ==
  (bPc = "returned" /\ bFault \in 1..Len(TxOps(bBatch))) =>
    (store = bBefore /\ bErr # Nil)

\* A call whose failing put came after all eight puts of an earlier record,
\* and that record's key is not in the store afterwards.
C1_Witness ==
  /\ bPc = "returned"
  /\ bFault \in 18..Len(TxOps(bBatch))
  /\ bErr # Nil
  /\ TxOps(bBatch)[10].key \notin DOMAIN store.kv["AP"]
  /\ store = bBefore

\* C2: in every committed store state the eight field sub-buckets hold the
\* same set of timestamp keys.
C2_SameKeySets == \A f, g \in Fields : DOMAIN store.kv[f] = DOMAIN store.kv[g]

\* A worker's put failed after another batch had committed keys.
C2_Witness ==
  /\ \E i \in DOMAIN errLog : PutFailed(errLog[i])
  /\ DOMAIN store.kv["AP"] # {}
  /\ numWorkers = 2

\* C3: with at least one worker, SaveQuotesConcurrently always gets to return:
\* in no reachable state has it not returned while no step is possible.
C3_AlwaysReturns == (numWorkers >= 1) => (mainPc = "done" \/ ENABLED Next)

\* C4: when SaveQuotesConcurrently (given a store handle) returns, the result
\* is nil if no worker's batch write failed, else it wraps the first error
\* sent on the error channel, which is the error of that worker's batch write.
C4_FirstErrorReturned ==
  (mainPc = "done" /\ dbInstance = "open") =>
    IF \E w \in DOMAIN callErr : callErr[w] # Nil
      THEN /\ errLog # <<>>
           /\ result = [msg |-> "uno o mas workers fallaron", cause |-> errLog[1]]
           /\ errLog[1].cause = callErr[errLog[1].worker]
      ELSE result = Nil

\* Two workers failed; the error of the first is returned, the other dropped.
C4_Witness ==
  /\ mainPc = "done"
  /\ Len(errLog) = 2
  /\ errLog[1] # errLog[2]
  /\ result.cause = errLog[1]

\* C5: once a worker's batch write has returned an error, that worker is
\* finished: it receives no further quote and calls processAndSaveBatch no more.
C5_FailFast ==
  [][\A w \in DOMAIN callErr :
       (callErr[w] # Nil /\ w \in DOMAIN callErr') =>
         /\ wPc[w] = "done"
         /\ wPc'[w] = "done"
         /\ localBatch'[w] = localBatch[w]
         /\ calls'[w] = calls[w]]_vars

\* A worker failed inside the loop and stopped while quotes are still queued
\* and another worker goes on receiving.
C5_Witness ==
  \E w, v \in DOMAIN wPc :
    /\ w # v
    /\ callErr[w] # Nil
    /\ wPc[w] = "done"
    /\ quotesChan # <<>>
    /\ wPc[v] = "recv"
    /\ calls[v] >= 1

\* C6: the keys of every batch whose transaction committed stay in the store,
\* whatever fails later; in particular they are there when the call returns
\* an error.
C6_CommittedStay ==
  \A q \in committed : ParseOK(q.T) => \A f \in Fields : KeyOf(q) \in DOMAIN store.kv[f]

\* The call returned an error and a batch committed by it is in the store.
C6_Witness ==
  /\ mainPc = "done"
  /\ result # Nil
  /\ \E q \in committed : ParseOK(q.T) /\ KeyOf(q) \in DOMAIN store.kv["AP"]

\* C7: when SaveQuotesConcurrently has passed the barrier and when it returns,
\* every launched worker has terminated and no write transaction is open.
C7_Barrier ==
  (mainPc \in {"collect", "done"} /\ dbInstance = "open" /\ quotes # <<>>) =>
    /\ DOMAIN wPc = Workers
    /\ \A w \in Workers : wPc[w] = "done"
    /\ tx.owner = -1

\* The call returned after both of two workers wrote batches.
C7_Witness ==
  /\ mainPc = "done"
  /\ numWorkers = 2
  /\ \A w \in DOMAIN calls : calls[w] >= 1

\* All timestamps of qs parse, to pairwise distinct nanosecond values.
DistinctParsed(qs) ==
  /\ \A i \in DOMAIN qs : ParseOK(qs[i].T)
  /\ \A i, j \in DOMAIN qs : i # j => UnixNano(qs[i].T) # UnixNano(qs[j].T)

\* C8: if the call on an empty symbol returns nil and all N timestamps parse to
\* pairwise distinct nanosecond values, every field sub-bucket holds exactly
\* N keys: the big-endian encodings of the parsed timestamps.
C8_Complete ==
  (mainPc = "done" /\ dbInstance = "open" /\ ~rerun /\ result = Nil
     /\ DistinctParsed(quotes)) =>
    \A f \in Fields :
      /\ DOMAIN store.kv[f] = {KeyOf(quotes[i]) : i \in DOMAIN quotes}
      /\ Cardinality(DOMAIN store.kv[f]) = Len(quotes)

\* A successful call of two workers on three quotes, with batches of size 2.
C8_Witness ==
  /\ mainPc = "done"
  /\ ~rerun
  /\ result = Nil
  /\ DistinctParsed(quotes)
  /\ Len(quotes) = 3
  /\ numWorkers = 2
  /\ batchSize = 2
  /\ Cardinality(DOMAIN store.kv["AP"]) = 3

\* C9 as first stated: after two successful calls with the same records the
\* store is what it was after the first.
C9_Original == (mainPc = "done" /\ rerun /\ result = Nil) => store = firstStore

\* No two quotes of qs with the same parsed timestamp differ in a stored value.
NoConflict(qs) ==
  \A i, j \in DOMAIN qs :
    (ParseOK(qs[i].T) /\ ParseOK(qs[j].T) /\ UnixNano(qs[i].T) = UnixNano(qs[j].T)) =>
      \A f \in Fields : FieldValue(qs[i], f) = FieldValue(qs[j], f)

\* C9: after two successful calls with the same records the store is what it
\* was after the first, provided there is one worker or no two records with
\* the same parsed timestamp differ in a field value.
C9_Idempotent ==
  (mainPc = "done" /\ rerun /\ result = Nil /\ (numWorkers = 1 \/ NoConflict(quotes))) =>
    store = firstStore

\* The second of two successful calls of two workers returned, keys stored.
C9_Witness ==
  /\ mainPc = "done"
  /\ rerun
  /\ result = Nil
  /\ numWorkers = 2
  /\ NoConflict(quotes)
  /\ Cardinality(DOMAIN store.kv["AP"]) >= 2
  /\ store = firstStore

\* The last quote of qs stored under key k.
RECURSIVE LastWithKey(_, _)
LastWithKey(qs, k) ==
  LET q == qs[Len(qs)]
  IN IF ParseOK(q.T) /\ KeyOf(q) = k THEN q ELSE LastWithKey(SubSeq(qs, 1, Len(qs) - 1), k)

\* C10: a call that meets no store fault on a batch holding a quote whose
\* timestamp does not parse returns nil; every sub-bucket gains exactly the
\* keys of the batch's valid quotes, with their field values, and nothing else
\* changes.
C10_SkipBadTimestamp ==
  (bPc = "returned" /\ bFault = 0 /\ \E i \in DOMAIN bBatch : ~ParseOK(bBatch[i].T)) =>
    /\ bErr = Nil
    /\ \A f \in Fields :
         /\ DOMAIN store.kv[f] = (DOMAIN bBefore.kv[f]) \cup ValidKeys(bBatch)
         /\ \A k \in ValidKeys(bBatch) :
              store.kv[f][k] = FieldValue(LastWithKey(bBatch, k), f)
         /\ \A k \in (DOMAIN bBefore.kv[f]) \ ValidKeys(bBatch) :
              store.kv[f][k] = bBefore.kv[f][k]

\* A call returned nil on a batch with a bad timestamp between two valid
\* quotes, both of which are stored.
C10_Witness ==
  /\ bPc = "returned"
  /\ bFault = 0
  /\ bErr = Nil
  /\ Len(bBatch) = 3
  /\ ~ParseOK(bBatch[2].T)
  /\ ParseOK(bBatch[1].T)
  /\ ParseOK(bBatch[3].T)
  /\ KeyOf(bBatch[1]) # KeyOf(bBatch[3])
  /\ {KeyOf(bBatch[1]), KeyOf(bBatch[3])} \subseteq DOMAIN store.kv["Z"]

\* C11: a call with a store handle and zero records returns nil at once: no
\* worker is started, nothing is sent, no write transaction is opened and the
\* store is left as it was.
C11_EmptyInput ==
  (dbInstance = "open" /\ quotes = <<>> /\ mainPc # "idle") =>
    /\ mainPc \in {"start", "done"}
    /\ mainPc = "done" => result = Nil
    /\ wPc = <<>>
    /\ calls = <<>>
    /\ sent = 0
    /\ ~chanClosed
    /\ tx = NoTx
    /\ store = EmptyStore

\* A call with two workers configured returned nil on zero records.
C11_Witness ==
  /\ dbInstance = "open"
  /\ quotes = <<>>
  /\ numWorkers = 2
  /\ mainPc = "done"
  /\ result = Nil
  /\ wPc = <<>>

\* C12: the work queue never buffers more than 2 x numWorkers records; while
\* it is full the producer cannot send; and the queue holds exactly the most
\* recently sent records, in the order sent: the producer buffers nowhere else.
C12_Backpressure ==
  /\ Len(quotesChan) <= 2 * numWorkers
  /\ (mainPc = "send" /\ Len(quotesChan) = 2 * numWorkers) => ~ENABLED MainSend
  /\ sent <= Len(quotes)
  /\ quotesChan = SubSeq(quotes, sent - Len(quotesChan) + 1, sent)

\* The producer is blocked on a full queue of two records of one worker.
C12_Witness ==
  /\ mainPc = "send"
  /\ numWorkers = 1
  /\ Len(quotesChan) = 2
  /\ sent < Len(quotes)
  /\ ~ENABLED MainSend

\* C13: a worker's local batch never exceeds batchSize; a worker that is to
\* receive holds fewer than batchSize records and one that is to write inside
\* the loop holds exactly batchSize; every processAndSaveBatch call carries
\* between 1 and batchSize records; after a successful write inside the loop
\* the local batch is empty.
C13_BatchSizing ==
  [][\A w \in DOMAIN wPc' :
       /\ Len(localBatch'[w]) <= batchSize
       /\ wPc'[w] = "recv" => Len(localBatch'[w]) < batchSize
       /\ wPc'[w] \in {"save", "saving"} => Len(localBatch'[w]) = batchSize
       /\ w \in DOMAIN wPc =>
            /\ calls'[w] = calls[w] + 1 =>
                  /\ Len(localBatch[w]) \in 1..batchSize
                  /\ localBatch'[w] = localBatch[w]
            /\ (wPc[w] = "saving" /\ wPc'[w] = "recv") => localBatch'[w] = <<>>
            /\ (wPc[w] = "save") => localBatch'[w] = localBatch[w]]_vars

\* A worker writes its second full batch of two records.
C13_Witness ==
  \E w \in DOMAIN wPc :
    /\ wPc[w] = "saving"
    /\ batchSize = 2
    /\ Len(localBatch[w]) = 2
    /\ calls[w] = 2

\* C14: the queue is closed once, when every record has been sent (the close
\* is then possible at once), and stays closed; a worker leaves its receive loop for the final flush only on a
\* closed and empty queue; it then calls processAndSaveBatch once if its local
\* batch is non-empty and not at all if it is empty.
C14_FinalFlush ==
  [][/\ (chanClosed' /\ ~chanClosed) =>
          (mainPc = "send" /\ sent = Len(quotes) /\ mainPc' = "wait")
     /\ (mainPc = "send" /\ sent = Len(quotes)) => ENABLED MainClose
     /\ (chanClosed /\ rerun' = rerun) => (chanClosed' /\ mainPc' # "send")
     /\ mainPc' \in {"wait", "collect"} => chanClosed'
     /\ \A w \in (DOMAIN wPc) \cap (DOMAIN wPc') :
          /\ (wPc[w] = "recv" /\ wPc'[w] \in {"flush", "done"}) =>
               /\ chanClosed
               /\ quotesChan = <<>>
               /\ wPc'[w] = "flush" <=> Len(localBatch[w]) > 0
               /\ calls'[w] = calls[w]
          /\ wPc[w] = "flush" =>
               /\ wPc'[w] \in {"flush", "flushing"}
               /\ wPc'[w] = "flushing" => calls'[w] = calls[w] + 1
               /\ wPc'[w] = "flush" => calls'[w] = calls[w]
          /\ wPc[w] = "flushing" =>
               /\ wPc'[w] \in {"flushing", "done"}
               /\ calls'[w] = calls[w]
          /\ wPc[w] = "done" => (wPc'[w] = "done" /\ calls'[w] = calls[w])]_vars

\* One worker is in its final flush while another, which received nothing
\* and did not fail, has ended without any call.
C14_Witness ==
  \E w, v \in DOMAIN wPc :
    /\ wPc[w] = "flushing"
    /\ localBatch[w] # <<>>
    /\ chanClosed
    /\ wPc[v] = "done"
    /\ callErr[v] = Nil
    /\ calls[v] = 0

\* The action invocations of the call so far, and the attempt numbers of a
\* sequence of events.
ActionEvents == SelectSeq(rTrace, LAMBDA e : e.ev = "action")
Attempts(evs) == [k \in 1..Len(evs) |-> evs[k].attempt]

\* The call of executeActionWithRetries is over.
RetryEnded == rPc \in {"returned", "panicked"}

\* C15: for maxRetries n >= 1, a call in which every invocation of the action
\* failed never makes more than n invocations and ends by returning, after
\* exactly the invocations 1..n, a nil result and the terminal error that
\* wraps the error of attempt n and carries the action name and n.
C15_Exhaustion ==
  (maxRetries >= 1 /\ \A k \in DOMAIN ActionEvents : ~ActionEvents[k].ok) =>
    /\ Len(ActionEvents) <= maxRetries
    /\ RetryEnded =>
         /\ rPc = "returned"
         /\ Attempts(ActionEvents) = [k \in 1..maxRetries |-> k]
         /\ rResult = Nil
         /\ rError = TerminalError(actionName, maxRetries, ActionError(maxRetries))

\* C16: when an invocation of the action succeeds, it is the last event of
\* the call: the invocations made are those of attempts 1..k in order, the
\* call has returned the result of invocation k with a nil error, and no
\* invocation, handler call or sleep follows.
C16_Success ==
  \A p \in DOMAIN rTrace :
    (rTrace[p].ev = "action" /\ rTrace[p].ok) =>
      /\ p = Len(rTrace)
      /\ rPc = "returned"
      /\ rTrace[p].attempt <= maxRetries
      /\ Attempts(ActionEvents) = [k \in 1..rTrace[p].attempt |-> k]
      /\ rResult = ActionResult(rTrace[p].attempt)
      /\ rError = Nil

\* The third attempt succeeded after two failures, each followed by a sleep.
C16_Witness ==
  /\ rPc = "returned"
  /\ maxRetries >= 4
  /\ rResult = ActionResult(3)
  /\ rError = Nil
  /\ Len(SelectSeq(rTrace, LAMBDA e : e.ev = "sleep")) = 2

\* C17: every failed invocation is followed at once by one errorHandler call
\* with the error of that attempt; errorHandler is called at no other time
\* (never after a success); a sleep comes only right after the handler call
\* of its attempt; and the error returned after the last handler call is the
\* terminal error for the error handled.
C17_FailureReporting ==
  /\ \A p \in DOMAIN rTrace :
       /\ (rTrace[p].ev = "action" /\ ~rTrace[p].ok) =>
            IF p = Len(rTrace)
              THEN rPc = "handle" /\ actErr = ActionError(rTrace[p].attempt)
              ELSE rTrace[p + 1] = Event("errorHandler", rTrace[p].attempt, FALSE,
                                         ActionError(rTrace[p].attempt))
       /\ rTrace[p].ev = "errorHandler" =>
            /\ p > 1
            /\ rTrace[p - 1] = Event("action", rTrace[p].attempt, FALSE, Nil)
       /\ rTrace[p].ev = "sleep" =>
            /\ p > 1
            /\ rTrace[p - 1].ev = "errorHandler"
            /\ rTrace[p - 1].attempt = rTrace[p].attempt
  /\ (rPc = "returned" /\ rTrace # <<>> /\ rTrace[Len(rTrace)].ev = "errorHandler") =>
       /\ rResult = Nil
       /\ rError = TerminalError(actionName, maxRetries, rTrace[Len(rTrace)].err)

\* Three attempts failed: three handler calls, the last with no sleep after it.
C17_Witness ==
  /\ rPc = "returned"
  /\ maxRetries = 3
  /\ rError # Nil
  /\ Len(rTrace) = 8
  /\ rTrace[8] = Event("errorHandler", 3, FALSE, ActionError(3))
  /\ rTrace[6].ev = "sleep"

\* C18: with initialBackoff = 50ms and maxBackoff = 2s, the backoff computed
\* for an attempt never exceeds maxBackoff, is not below the backoff of the
\* attempt before, and is maxBackoff once the one before was.
C18_BackoffBound ==
  (/\ initialBackoff = Mul64(50, Millisecond)
   /\ maxBackoff = Mul64(2, Second)
   /\ rPc \in {"jitter", "sleep", "panicked"}) =>
    /\ ~Less64(maxBackoff, backoff)
    /\ attempt > 1 =>
         /\ ~Less64(backoff, prevBackoff)
         /\ prevBackoff = maxBackoff => backoff = maxBackoff

\* min(initial * 2^(k-1), max) over the integers, for 0 < initial and
\* max < 2^62: the doublings are exact up to the first that exceeds max.
IdealBackoff(initial, max, k) ==
  IF \E t \in 0..(k - 1) : Less64(max, MulPow2(initial, t))
    THEN max
    ELSE MulPow2(initial, k - 1)

\* C19: whenever the call sleeps, the duration d satisfies
\* backoff <= d < backoff + backoff/2 for
\* backoff = min(initialBackoff * 2^(attempt-1), maxBackoff).
C19_JitterRange ==
  rPc = "sleep" =>
    LET b == IdealBackoff(initialBackoff, maxBackoff, attempt)
    IN /\ ~Less64(sleepDuration, b)
       /\ Less64(sleepDuration, Add64(b, Half64(b)))

\* A sleep of the greatest duration allowed, 3s - 1ns, on the capped backoff
\* of 2s of the ninth attempt.
C19_Witness ==
  /\ rPc = "sleep"
  /\ initialBackoff = Mul64(50, Millisecond)
  /\ attempt = 9
  /\ backoff = maxBackoff
  /\ sleepDuration = Add64(Mul64(3, Second), Neg64(Nanosecond))

\* C20: for two timestamps that parse, the earlier one gets the key that is
\* smaller in byte order, also for instants before 1970.
C20_KeyOrder ==
  (kPc = "done" /\ ParseOK(kT1) /\ ParseOK(kT2) /\ UnixNano(kT1) < UnixNano(kT2)) =>
    LexLess(kKey1, kKey2)

\* C21: on an open store, two calls of InitBucket with the same bucket name
\* that meet no fault both return nil, and after a first call that returned
\* nil the store after the second call is the store after the first: the
\* bucket exists, and the sub-buckets and keys it had are untouched.
C21_GetOrCreateIdempotent ==
  (iPc = "done" /\ dbInstance = "open") =>
    /\ store = iAfter[2]
    /\ iFaults = <<0, 0>> => iErrs = <<Nil, Nil>>
    /\ iErrs[1] = Nil =>
         /\ iAfter[2] = iAfter[1]
         /\ iAfter[1].sym
         /\ iAfter[1].sub = iBefore.sub
         /\ iAfter[1].kv = iBefore.kv

\* Both calls returned nil on a bucket that held two keys in eight sub-buckets.
C21_Witness ==
  /\ iPc = "done"
  /\ dbInstance = "open"
  /\ iErrs = <<Nil, Nil>>
  /\ iBefore.sub = Fields
  /\ Cardinality(DOMAIN iBefore.kv["Z"]) = 2
  /\ store = iBefore

\* C22: while every InitBucket attempt fails, as all do on a closed handle,
\* InitBucketWithRetries makes at most 5 attempts, with backoffs of 500ms
\* doubled per attempt (below the maximum of 5s), and never changes the
\* store; it returns after exactly the attempts 1..5, with a nil bucket and
\* an error that wraps the terminal error of the retries, which wraps the
\* error of the fifth attempt.
C22_RetryPolicy ==
  /\ dbInstance = "closed" => \A k \in DOMAIN ActionEvents : ~ActionEvents[k].ok
  /\ (\A k \in DOMAIN ActionEvents : ~ActionEvents[k].ok) =>
       /\ Len(ActionEvents) <= 5
       /\ store = iBefore
       /\ rPc # "panicked"
       /\ rPc \in {"jitter", "sleep"} =>
            /\ backoff = Mul64(500 * (2 ^ (attempt - 1)), Millisecond)
            /\ Less64(backoff, Mul64(5, Second))
       /\ ibPc = "returned" =>
            /\ Attempts(ActionEvents) = [k \in 1..5 |-> k]
            /\ Len(SelectSeq(rTrace, LAMBDA e : e.ev = "sleep")) = 4
            /\ ibBucket = Nil
            /\ ibErr # Nil
            /\ ibErr = WrapBucketError(TerminalError("apertura bbolt db", 5, actErr))
            /\ actErr # Nil
            /\ dbInstance = "closed" => actErr = ErrDatabaseNotOpen

\* The call on a closed handle of a database that holds keys has returned
\* after five attempts.
C22_Witness ==
  /\ dbInstance = "closed"
  /\ ibPc = "returned"
  /\ Len(ActionEvents) = 5
  /\ ibBucket = Nil
  /\ ibErr.cause.cause = ErrDatabaseNotOpen
  /\ DOMAIN store.kv["AP"] # {}
  /\ store = iBefore

\* C23: the store handle is never closed twice, and a run of main that
\* opened the store and has ended has closed it exactly once.
C23_CloseOnce ==
  /\ closes <= 1
  /\ (oPc = "exited" /\ dbInstance # "nil") => closes = 1

\* C24: the store handle is open, and has never been closed, while
\* SaveQuotesConcurrently is running, while any of its workers has not ended
\* and while a write transaction is open; every Close comes after
\* SaveQuotesConcurrently has returned, with all workers ended.
C24_CloseAfterBarrier ==
  [][/\ (mainPc \in {"start", "send", "wait", "collect"}
          \/ tx.owner # -1
          \/ \E w \in DOMAIN wPc : wPc[w] # "done") =>
            (dbInstance = "open" /\ closes = 0)
     /\ closes' # closes =>
          /\ mainPc = "done"
          /\ tx.owner = -1
          /\ \A w \in DOMAIN wPc : wPc[w] = "done"
          /\ oPc = "unwinding"]_vars

\* The handle has been closed after an ingest in which two workers wrote a
\* batch each, one of them failing.
C24_Witness ==
  /\ closes >= 1
  /\ dbInstance = "closed"
  /\ mainPc = "done"
  /\ result # Nil
  /\ Cardinality({w \in DOMAIN calls : calls[w] = 1}) = 2
  /\ committed # {}

\* C25: a call of processAndSaveBatch opens one write transaction, when it
\* starts, and ends it once, when it returns: by a commit that makes every
\* write of the batch visible in that one step when it returns nil, by a
\* rollback that leaves the store as it was when it returns an error; no
\* other step of the call opens or ends a transaction or changes the store.
C25_OneTransaction ==
  [][/\ bPc = "call" => (tx = NoTx /\ store = bBefore)
     /\ (bPc = "call" /\ bPc' # "call") =>
          /\ bPc' = "open"
          /\ tx'.owner = DirectCaller
          /\ store' = store
     /\ bPc = "open" => (tx.owner = DirectCaller /\ store = bBefore)
     /\ (bPc = "open" /\ bPc' # "open") =>
          /\ bPc' = "returned"
          /\ tx' = NoTx
          /\ IF bErr' = Nil
               THEN store' = ApplyOps(bBefore, TxOps(bBatch), Len(TxOps(bBatch)))
               ELSE store' = bBefore
     /\ bPc' = bPc => (tx' = tx /\ store' = store)
     /\ bPc = "returned" => (bPc' = "returned" /\ tx = NoTx)]_vars

\* A call returned nil and its one commit added the keys of two records.
C25_Witness ==
  /\ bPc = "returned"
  /\ bErr = Nil
  /\ tx = NoTx
  /\ Cardinality(DOMAIN store.kv["AP"]) = Cardinality(DOMAIN bBefore.kv["AP"]) + 2

\* C26: for every key of the committed store there is one input record with
\* that timestamp whose values are the ones stored under the key in all eight
\* sub-buckets: no committed state mixes the fields of two records, also when
\* two different records share a timestamp.
C26_RecordIntegrity ==
  \A g \in Fields : \A k \in DOMAIN store.kv[g] :
    \E i \in DOMAIN quotes :
      /\ ParseOK(quotes[i].T)
      /\ KeyOf(quotes[i]) = k
      /\ \A f \in Fields :
           /\ k \in DOMAIN store.kv[f]
           /\ store.kv[f][k] = FieldValue(quotes[i], f)

\* Two workers each committed one of two different records that share a
\* timestamp; the key holds the values of the first of them.
C26_Witness ==
  /\ mainPc = "done"
  /\ numWorkers = 2
  /\ quotes = <<QuoteA, QuoteA2>>
  /\ \A w \in DOMAIN calls : calls[w] = 1
  /\ committed = {QuoteA, QuoteA2}
  /\ \A f \in Fields : store.kv[f][KeyOf(QuoteA2)] = FieldValue(QuoteA, f)

\* The quotes the workers hold that they have not yet passed on.
RECURSIVE PendingBelow(_)
PendingBelow(n) ==
  IF n = 0 THEN EmptyBag
  ELSE (IF (n - 1) \in DOMAIN wPc /\ wPc[n - 1] \in {"recv", "save", "flush"}
          THEN BagOfSeq(localBatch[n - 1]) ELSE EmptyBag) (+) PendingBelow(n - 1)

\* C27: the quotes sent so far are, with their multiplicities, those still in
\* the queue and those received by the workers (none received twice, none
\* lost); the quotes received are those passed to processAndSaveBatch and
\* those still held in a local batch; and when the call has returned with no
\* batch write failed, the quotes passed are exactly the input quotes.
C27_ExactlyOnce ==
  /\ BagOfSeq(SubSeq(quotes, 1, sent)) = BagOfSeq(quotesChan) (+) received
  /\ received = passed (+) PendingBelow(numWorkers)
  /\ (mainPc = "done" /\ dbInstance = "open" /\ quotes # <<>>
        /\ \A w \in DOMAIN callErr : callErr[w] = Nil) =>
       passed = BagOfSeq(quotes)

\* Two workers wrote a feed in which one record occurs twice; it was passed
\* on twice.
C27_Witness ==
  /\ mainPc = "done"
  /\ result = Nil
  /\ numWorkers = 2
  /\ quotes = <<QuoteA, QuoteB, QuoteA>>
  /\ \A w \in DOMAIN calls : calls[w] >= 1
  /\ CopiesIn(QuoteA, passed) = 2
  /\ CopiesIn(QuoteB, passed) = 1

\* C28: a worker sends at most one error during a call; the errors buffered
\* never exceed the capacity of the error channel, which is numWorkers; and a
\* worker whose batch write is ending is never kept from ending it by a full
\* error channel.
C28_ErrorCapacity ==
  /\ \A i, j \in DOMAIN errLog : errLog[i].worker = errLog[j].worker => i = j
  /\ Len(errChan) <= ErrCap
  /\ \A w \in DOMAIN wPc :
       (wPc[w] \in {"saving", "flushing"} /\ tx.owner = w) => ENABLED WorkerEnd(w)

\* The second of two failing workers is about to send its error while the
\* error of the first is buffered.
C28_Witness ==
  \E w \in DOMAIN wPc :
    /\ numWorkers = 2
    /\ Len(errChan) = 1
    /\ errChan[1].worker # w
    /\ wPc[w] \in {"saving", "flushing"}
    /\ tx.owner = w
    /\ tx.err # Nil

\* C29: whatever maxRetries is, zero and negative values included, a call
\* that has returned a nil error made an invocation of the action that
\* returned a nil error.
C29_NoFalseSuccess ==
  (rPc = "returned" /\ rError = Nil) =>
    \E k \in DOMAIN ActionEvents : ActionEvents[k].ok

\* C30: for initialBackoff >= 0, maxBackoff >= 0 and maxRetries >= 2, the
\* jitter computation never aborts the call: the bound handed to rand.Int63n
\* is positive, and the call does not end in a panic.
C30_JitterNeverAborts ==
  (maxRetries >= 2 /\ ~IsNeg64(initialBackoff) /\ ~IsNeg64(maxBackoff)) =>
    /\ rPc = "jitter" => IsPos64(Half64(backoff))
    /\ rPc # "panicked"

\* C31: a call with zero workers and a non-empty record sequence gets to
\* return: in no reachable state has it not returned while no step is possible.
C31_ZeroWorkersReturn ==
  (numWorkers = 0 /\ dbInstance = "open" /\ quotes # <<>> /\ mainPc # "idle") =>
    (mainPc = "done" \/ ENABLED Next)

\* C32: after a call that returned nil, a key shared by two records of the
\* batch holds, in all eight sub-buckets, the values of the record that comes
\* later in the batch.
C32_LaterRecordWins ==
  (bPc = "returned" /\ bErr = Nil) =>
    \A i, j \in DOMAIN bBatch :
      (/\ i < j
       /\ ParseOK(bBatch[i].T)
       /\ ParseOK(bBatch[j].T)
       /\ KeyOf(bBatch[i]) = KeyOf(bBatch[j])
       /\ \A k \in DOMAIN bBatch :
            (k > j /\ ParseOK(bBatch[k].T)) => KeyOf(bBatch[k]) # KeyOf(bBatch[j])) =>
        \A f \in Fields : store.kv[f][KeyOf(bBatch[j])] = FieldValue(bBatch[j], f)

\* The batch held the same timestamp twice with different values, the first
\* record's values were in the store before, and the second record's are now.
C32_Witness ==
  /\ bPc = "returned"
  /\ bErr = Nil
  /\ bBatch = <<QuoteB, QuoteA2, QuoteA>>
  /\ bBefore = StoreAfter(<<QuoteA2>>)
  /\ store.kv["Z"][KeyOf(QuoteA2)] = FieldValue(QuoteA, "Z")
  /\ store.kv["AS"][KeyOf(QuoteA2)] = FieldValue(QuoteA, "AS")

\* The store operations of the call on batch qs that get or create a bucket.
BucketGets(qs) == SelectSeq(TxOps(qs), LAMBDA o : o.op \in {"createSymbol", "createSub"})

\* C33: whatever the batch, the call issues nine get-or-create operations,
\* the symbol bucket and then the eight sub-buckets, all of them before the
\* first put; and a call that meets no fault on a batch whose timestamps all
\* fail to parse returns nil, leaves the symbol bucket and its eight
\* sub-buckets in existence and adds no key.
C33_BucketsOncePerCall ==
  /\ Len(BucketGets(bBatch)) = 9
  /\ \A i \in 1..9 : TxOps(bBatch)[i] = BucketGets(bBatch)[i]
  /\ TxOps(bBatch)[1].op = "createSymbol"
  /\ {TxOps(bBatch)[i].field : i \in 2..9} = Fields
  /\ (bPc = "returned" /\ bFault = 0 /\ \A i \in DOMAIN bBatch : ~ParseOK(bBatch[i].T)) =>
       /\ bErr = Nil
       /\ store.sym
       /\ store.sub = Fields
       /\ store.kv = bBefore.kv

\* A batch of three records with unparseable timestamps was committed on an
\* empty database: the buckets exist, no key does.
C33_Witness ==
  /\ bPc = "returned"
  /\ bFault = 0
  /\ bErr = Nil
  /\ bBatch = <<QuoteBad, QuoteBad, QuoteBad>>
  /\ bBefore = EmptyStore
  /\ store.sym
  /\ store.sub = Fields
  /\ \A f \in Fields : DOMAIN store.kv[f] = {}

\* The sleeps of the call so far.
SleepEvents == SelectSeq(rTrace, LAMBDA e : e.ev = "sleep")

\* C34: the k-th sleep follows the failure of attempt k, for k below
\* maxRetries, and is followed by nothing but attempt k + 1: one sleep between
\* two consecutive attempts, none after the last permitted attempt; and when
\* the call returns the terminal error after n = maxRetries >= 1 failed
\* attempts it has slept n - 1 times, the last event being the handling of
\* the last failure.
C34_SleepCount ==
  /\ Attempts(SleepEvents) = [k \in 1..Len(SleepEvents) |-> k]
  /\ \A p \in DOMAIN rTrace :
       rTrace[p].ev = "sleep" =>
         /\ rTrace[p].attempt < maxRetries
         /\ p < Len(rTrace) => rTrace[p + 1] \in
              {Event("action", rTrace[p].attempt + 1, ok, Nil) : ok \in BOOLEAN}
  /\ \A p \in DOMAIN rTrace :
       (rTrace[p].ev = "action" /\ rTrace[p].attempt > 1) =>
         /\ p > 1
         /\ rTrace[p - 1] = Event("sleep", rTrace[p].attempt - 1, FALSE, Nil)
  /\ (rPc = "returned" /\ maxRetries >= 1 /\ rError # Nil) =>
       /\ Len(ActionEvents) = maxRetries
       /\ Len(SleepEvents) = maxRetries - 1
       /\ rTrace[Len(rTrace)].ev = "errorHandler"

\* Five attempts failed: four sleeps, and the terminal error right after the
\* fifth failure was handled.
C34_Witness ==
  /\ rPc = "returned"
  /\ maxRetries = 5
  /\ rError = TerminalError(actionName, 5, ActionError(5))
  /\ Len(SleepEvents) = 4
  /\ rTrace[Len(rTrace)] = Event("errorHandler", 5, FALSE, ActionError(5))

\* The puts the call of worker w issues for the batch it holds.
PutsOf(w) == SelectSeq(TxOps(localBatch[w]), LAMBDA o : o.op = "put")

\* C35: whatever calls have run, the sub-buckets of the symbol bucket are
\* among AP, AS, AX, BP, BS, BX, C, Z (there is none for T), every put of a
\* call goes into one of these sub-buckets (never into the symbol bucket
\* itself) and every key stored is 8 bytes long.
C35_BucketLayout ==
  /\ store.sub \subseteq {"AP", "AS", "AX", "BP", "BS", "BX", "C", "Z"}
  /\ "T" \notin store.sub
  /\ DOMAIN store.kv = {"AP", "AS", "AX", "BP", "BS", "BX", "C", "Z"}
  /\ \A f \in DOMAIN store.kv :
       /\ store.kv[f] # <<>> => (store.sym /\ f \in store.sub)
       /\ \A k \in DOMAIN store.kv[f] : Len(k) = 8 /\ \A b \in 1..8 : k[b] \in 0..255
  /\ \A w \in DOMAIN wPc : \A p \in DOMAIN PutsOf(w) :
       /\ PutsOf(w)[p].field \in store.sub \cup {o.field : o \in {CreateOps[c] : c \in 2..Len(CreateOps)}}
       /\ PutsOf(w)[p].field \in {"AP", "AS", "AX", "BP", "BS", "BX", "C", "Z"}
       /\ Len(PutsOf(w)[p].key) = 8

\* Two runs over the same three quotes, one of them without a timestamp,
\* left the eight sub-buckets with the two 8-byte keys.
C35_Witness ==
  /\ mainPc = "done"
  /\ rerun
  /\ result = Nil
  /\ quotes = <<QuoteA, QuoteBad, QuoteB>>
  /\ store.sym
  /\ store.sub = {"AP", "AS", "AX", "BP", "BS", "BX", "C", "Z"}
  /\ \A f \in DOMAIN store.kv : DOMAIN store.kv[f] = {KeyOf(QuoteA), KeyOf(QuoteB)}

\* C36: with a nil database handle the call does nothing but return the
\* error "instancia de base de datos nula", whatever the records (none
\* included): no channel is made, no worker launched, nothing sent or written.
C36_NilHandle ==
  (dbInstance = "nil" /\ mainPc # "idle") =>
    /\ mainPc \in {"start", "done"}
    /\ mainPc = "start" => ENABLED MainStart
    /\ mainPc = "done" =>
         /\ result # Nil
         /\ result = [msg |-> "instancia de base de datos nula"]
    /\ wPc = <<>>
    /\ localBatch = <<>>
    /\ calls = <<>>
    /\ sent = 0
    /\ quotesChan = <<>>
    /\ errChan = <<>>
    /\ ~chanClosed
    /\ tx = NoTx
    /\ store = EmptyStore
    /\ ~rerun

\* The call on a nil handle and no record at all returned the error.
C36_Witness ==
  /\ dbInstance = "nil"
  /\ quotes = <<>>
  /\ mainPc = "done"
  /\ result = [msg |-> "instancia de base de datos nula"]
  /\ wPc = <<>>

\* The same on a nil handle and three records, with no worker configured.
C36_WitnessRecords ==
  /\ dbInstance = "nil"
  /\ Len(quotes) = 3
  /\ numWorkers = 0
  /\ mainPc = "done"
  /\ result = [msg |-> "instancia de base de datos nula"]

\* C37: every db.Open that InitDB makes gets the path, the file mode and the
\* options of the DBOptions value the caller passed.
C37_OpensCallerConfig ==
  (idPc # "idle" /\ cfg.FileMode \in {"0600", "0400"}) =>
    \A i \in DOMAIN opens : opens[i] = OpenCall(cfg)

\* C38: with a file mode other than 0600 and 0400 every call of InitDB gives
\* no handle and the error of line 103 and opens nothing; the retries call it
\* 5 times, and InitDBWithRetries returns no handle and the terminal error,
\* no db.Open having been made.
C38_InvalidModeNeverOpens ==
  (idPc # "idle" /\ cfg.FileMode \notin {"0600", "0400"}) =>
    /\ opens = <<>>
    /\ rResult = Nil
    /\ \A p \in DOMAIN ActionEvents : ~ActionEvents[p].ok
    /\ rPc = "handle" => actErr = SecurityError(cfg.FileMode)
    /\ Len(ActionEvents) <= 5
    /\ rPc = "returned" =>
         /\ Attempts(ActionEvents) = <<1, 2, 3, 4, 5>>
         /\ rError =
              TerminalError("apertura bbolt db", 5, SecurityError(cfg.FileMode))
    /\ idPc = "returned" =>
         /\ idDB = Nil
         /\ idErr = WrapDBError(
              TerminalError("apertura bbolt db", 5, SecurityError(cfg.FileMode)))
         /\ Len(ActionEvents) = 5

\* InitDBWithRetries on the mode 0644 returned the terminal error after five
\* calls of InitDB, with no db.Open made.
C38_Witness ==
  /\ idPc = "returned"
  /\ cfg = [WriteConfig EXCEPT !.FileMode = "0644"]
  /\ idDB = Nil
  /\ idErr = WrapDBError(TerminalError("apertura bbolt db", 5, SecurityError("0644")))
  /\ Len(ActionEvents) = 5
  /\ Len(SleepEvents) = 4
  /\ opens = <<>>

\* C39: the timestamp read back from a key, decoded as a big-endian uint64
\* and converted to int64, is the timestamp the key was made of, and the keys
\* of two different timestamps differ.
C39_KeyRoundTrip ==
  /\ (kPc = "read" /\ ParseOK(kT1)) => kNano1 = UnixNano(kT1)
  /\ (kPc = "read" /\ ParseOK(kT2)) => kNano2 = UnixNano(kT2)
  /\ (kPc \in {"done", "read"} /\ ParseOK(kT1) /\ ParseOK(kT2)) =>
       /\ UnixNano(kT1) # UnixNano(kT2) => kKey1 # kKey2
       /\ Int64OfUint64(kKey1) = UnixNano(kT1)
       /\ Int64OfUint64(kKey2) = UnixNano(kT2)

\* A timestamp before the epoch and one after it were read back from their
\* keys, which differ.
C39_Witness ==
  /\ kPc = "read"
  /\ ParseOK(kT1)
  /\ ParseOK(kT2)
  /\ UnixNano(kT1) = -257
  /\ UnixNano(kT2) = 256
  /\ kKey1 = <<255, 255, 255, 255, 255, 255, 254, 255>>
  /\ kKey2 = <<0, 0, 0, 0, 0, 0, 1, 0>>
  /\ kNano1 = -257
  /\ kNano2 = 256

====
